---------------------------- MODULE Spec2Model ----------------------------
(***************************************************************************)
(* AIPsych: the server's HTTP routes and /realtime WebSocket proxy         *)
(* (src/server/index.js), the browser chat clients (src/ui/src/App.tsx and *)
(* its earlier snapshots) and the crisis gating pipeline of spec.md 4.5.   *)
(*                                                                         *)
(* Text is a sequence of Unicode code points, so that trimming, script     *)
(* detection, normalisation and substring matching are computed, not       *)
(* assumed.  Each subsystem has its own next-state relation and            *)
(* specification; a subsystem leaves the other subsystems' variables       *)
(* unchanged.                                                              *)
(***************************************************************************)
EXTENDS Integers, Sequences, FiniteSets, TLC

VARIABLES
    \* ---- HTTP routes of src/server/index.js (one request at a time) ----
    hpc,        \* position of the route handler
    hreq,       \* the request being handled: route and body field
    hcalls,     \* provider calls dispatched for this request, in order
    hres,       \* the express response object of this request
    transcript, \* the conversation so far: texts sent and replies received
    \* ---- gating pipeline of spec.md 4.5 (one connection's session) ----
    gpc,        \* state of the current turn
    gutt,       \* the utterance of the current turn
    session,    \* ConversationSession: history and crisisAlreadySurfaced
    kwVerdict,  \* keyword matcher's verdict of the current turn
    gcalls,     \* model calls of the current turn and their outcomes
    outbox,     \* messages delivered to the transport on this connection
    gturn,      \* turns started on this connection
    \* ---- /realtime proxy of src/server/index.js ----
    nconn,      \* connections accepted so far
    conn,       \* per connection: its two sockets and what was sent on each
    nmsg,       \* messages received by the proxy so far
    \* ---- browser chat client (App.tsx and its snapshots) ----
    uiVariant,  \* which App component runs
    isProcessing,
    messages,   \* the chat list; each entry records whose reply was written to it
    inFlight,   \* turns sent to the server whose reply has not been delivered
    usends,     \* utterances sent so far
    \* ---- askRealtimePsychologist (index.js and realtimeClient.mjs) ----
    rtVariant,  \* which of the two functions was called
    rtWs,       \* readyState of the call's WebSocket
    rtSent,     \* messages the call has sent on it
    fullText,   \* the reply text gathered so far
    rtPromise,  \* the returned promise: state and value
    rtFrames,   \* frames received so far
    rtLast,     \* type of the frame received last
    rtCrashed,  \* an exception left a listener (uncaught exception)
    \* ---- textToSpeech of src/ui/src/utils/audioUtils.ts ----
    spPc,       \* position of the call in progress
    spText,     \* its text
    spTried,    \* what it has asked for so far, in order
    spSpeech,   \* the promise of speakWithBrowser
    spPromise,  \* the promise textToSpeech returned
    spCalls,    \* calls made so far
    \* ---- the Normalizer of spec.md 4.1, applied to a text ----
    nIn,        \* the raw text
    nOut,       \* the text after the passes made so far
    nPasses,    \* passes of normalize made over it
    \* ---- RealtimeClient of src/ui/src/utils/realtimeChat.ts ----
    rcSockets,          \* every WebSocket the client has created, in order
    rcWs,               \* this.ws: which of them (0: null)
    reconnectAttempts,  \* this.reconnectAttempts
    rcTimers,           \* delays of the pending setTimeout(() => this.connect())
    rcTokens,           \* connect() calls awaiting getRealtimeToken
    rcScheduled,        \* delays scheduled since the last successful open
    rcLastError,        \* the last message given to onError
    rcDisconnected,     \* disconnect() was called since the last connect by the user
    rcConnects,         \* connect() calls by the user
    \* ---- RealtimeClient of src/unnamed/part_006 (and part_005) ----
    bcSockets,          \* every connect() so far: its socket, promise and timer
    bcWs,               \* this.ws: which of the sockets (0: null)
    isConnected,        \* this.isConnected
    \* ---- sendTextMessage of src/ui/src/utils/audioUtils.ts ----
    ndPc,               \* "idle", "reading" or "returned"
    ndBytes,            \* the bytes of the response body
    ndPos,              \* how many of them the reader has handed out
    ndPending,          \* bytes of an incomplete character held by the decoder
    buffer,             \* the incomplete line kept between reads
    fullReply,          \* the reply
    audioChunks,        \* the decoded audio chunks
    ndHandled,          \* the lines given to JSON.parse so far
    \* ---- RealtimeAudioProcessor of src/unnamed/part_006 (and part_005) ----
    audioQueue,         \* this.audioQueue
    isPlaying,          \* this.isPlaying
    nextStartTime,      \* this.nextStartTime
    apState,            \* audioContext.state
    currentTime,        \* audioContext.currentTime
    apSources,          \* the source nodes started so far
    apResuming,         \* playAudioChunk calls waiting for audioContext.resume()
    apArrived,          \* the chunks passed to playAudioChunk so far, in order
    apThrown,           \* playNextChunk calls that threw
    \* ---- streamToMediaSource of src/ui/src/utils/audioUtils.ts ----
    msPc,               \* where the sourceopen listener waits
    msRead,             \* chunks the reader has given so far
    pending,            \* the chunks waiting for the source buffer
    msUpdating,         \* sourceBuffer.updating
    msAppended,         \* the chunks appendBuffer has taken, in order
    msThrown,           \* the chunks for which appendBuffer threw
    firstAppend,        \* firstAppend
    msWhileUpdating,    \* appendBuffer was called while the buffer was updating
    \* ---- streamTextToSpeech of src/server/index.js, step by step ----
    ttsPc,              \* "idle", "loop", "returned" or "thrown"
    ttsLength,          \* buffer.length
    ttsI,               \* i of the loop
    ttsYielded          \* the slices yielded so far

hvars == <<hpc, hreq, hcalls, hres, transcript>>
gvars == <<gpc, gutt, session, kwVerdict, gcalls, outbox, gturn>>
pvars == <<nconn, conn, nmsg>>
uvars == <<uiVariant, isProcessing, messages, inFlight, usends>>
rvars == <<rtVariant, rtWs, rtSent, fullText, rtPromise, rtFrames, rtLast, rtCrashed>>
svars == <<spPc, spText, spTried, spSpeech, spPromise, spCalls>>
nvars == <<nIn, nOut, nPasses>>
cvars == <<rcSockets, rcWs, reconnectAttempts, rcTimers, rcTokens, rcScheduled,
           rcLastError, rcDisconnected, rcConnects>>
bvars == <<bcSockets, bcWs, isConnected>>
dvars == <<ndPc, ndBytes, ndPos, ndPending, buffer, fullReply, audioChunks, ndHandled>>
avars == <<audioQueue, isPlaying, nextStartTime, apState, currentTime, apSources,
           apResuming, apArrived, apThrown>>
mvars == <<msPc, msRead, pending, msUpdating, msAppended, msThrown, firstAppend,
           msWhileUpdating>>
tvars == <<ttsPc, ttsLength, ttsI, ttsYielded>>
vars == <<hvars, gvars, pvars, uvars, rvars, svars, nvars, cvars, bvars, dvars,
          avars, mvars, tvars>>

-----------------------------------------------------------------------------
(* Texts, as code points.                                                  *)

U_KillMyself == <<73, 32, 119, 97, 110, 116, 32, 116, 111, 32, 107, 105, 108, 108, 32, 109, 121, 115, 101, 108, 102>>   \* "I want to kill myself"
U_Hi == <<104, 105>>                                                   \* "hi"
U_SoTired == <<115, 111, 32, 116, 105, 114, 101, 100>>                 \* "so tired"
U_Space == <<32>>                                                      \* " "
U_Empty == <<>>                                                        \* ""
U_Marikkan == <<3374, 3376, 3391, 3349, 3405, 3349, 3390, 3451, 32, 3364, 3403, 3368, 3405, 3368, 3393, 3368, 3405, 3368, 3393>>   \* the Malayalam phrase of spec.md 8
U_Mixed == <<107, 105, 108, 108, 32, 109, 121, 115, 101, 108, 102, 32, 3374>>   \* "kill myself " and one Malayalam letter
T_OK == <<79, 75>>                                                     \* "OK"

\* String.prototype.trim: white space is removed from both ends.
IsSpace(c) == c \in {9, 10, 11, 12, 13, 32}

RECURSIVE TrimLeft(_)
TrimLeft(s) == IF s # <<>> /\ IsSpace(Head(s)) THEN TrimLeft(Tail(s)) ELSE s

RECURSIVE TrimRight(_)
TrimRight(s) ==
    IF s # <<>> /\ IsSpace(s[Len(s)]) THEN TrimRight(SubSeq(s, 1, Len(s) - 1)) ELSE s

Trim(s) == TrimRight(TrimLeft(s))

-----------------------------------------------------------------------------
(* JavaScript values of a request-body field, and the two tests the        *)
(* routes apply to them.                                                   *)

JsUndefined == [t |-> "undefined", s |-> <<>>, n |-> 0]
JsNull == [t |-> "null", s |-> <<>>, n |-> 0]
JsObject == [t |-> "object", s |-> <<>>, n |-> 0]
JsNumber(k) == [t |-> "number", s |-> <<>>, n |-> k]
JsString(str) == [t |-> "string", s |-> str, n |-> 0]

\* !v : undefined, null, 0 and "" are falsy; objects and other values are not.
Falsy(v) ==
    \/ v.t \in {"undefined", "null"}
    \/ v.t = "number" /\ v.n = 0
    \/ v.t = "string" /\ v.s = <<>>

\* typeof v (typeof null is "object")
TypeOf(v) == IF v.t = "null" THEN "object" ELSE v.t

\* The body fields a client may send.
Messages ==
    {JsUndefined, JsNull, JsObject, JsNumber(0), JsNumber(5),
     JsString(U_Empty), JsString(U_Space), JsString(U_Hi), JsString(U_SoTired),
     JsString(U_KillMyself), JsString(U_Marikkan)}

\* Error messages a provider call may reject with.
ProviderErrors == {"Incorrect API key provided", "Rate limit reached"}

\* The text a chat-completion stream may aggregate to (line 147-150).
ChatTexts == {U_Empty, U_Space, <<32, 79, 75, 10>>}

\* The text a transcription may carry (line 355).
TranscriptionTexts == {U_Empty, U_Space, <<32, 104, 105>>, U_KillMyself}

Resolved(t) == [ok |-> TRUE, text |-> t, err |-> ""]
Rejected(e) == [ok |-> FALSE, text |-> <<>>, err |-> e]

ChatOutcomes == {Resolved(t) : t \in ChatTexts} \cup {Rejected(e) : e \in ProviderErrors}
TranscriptionOutcomes ==
    {Resolved(t) : t \in TranscriptionTexts} \cup {Rejected(e) : e \in ProviderErrors}

\* "I'm here with you. Let me think about that..."
DefaultReply == <<73, 39, 109, 32, 104, 101, 114, 101, 32, 119, 105, 116, 104, 32, 121, 111, 117, 46, 32, 76, 101, 116, 32, 109, 101, 32, 116, 104, 105, 110, 107, 32, 97, 98, 111, 117, 116, 32, 116, 104, 97, 116, 46, 46, 46>>

\* askPsychologist: the aggregated stream, trimmed, or the default text; an
\* error of the provider call is logged and thrown again.
AskPsychologist(o) ==
    IF o.ok
    THEN Resolved(IF Trim(o.text) # <<>> THEN Trim(o.text) ELSE DefaultReply)
    ELSE Rejected(o.err)

chunkSize == 4096

Min(a, b) == IF a < b THEN a ELSE b

\* streamTextToSpeech's loop: the sizes of buffer.slice(i, min(i + chunkSize, length))
\* for i = 0, chunkSize, 2 chunkSize, ... below length.
RECURSIVE ChunkSizesFrom(_, _)
ChunkSizesFrom(i, length) ==
    IF i < length
    THEN <<Min(i + chunkSize, length) - i>> \o ChunkSizesFrom(i + chunkSize, length)
    ELSE <<>>

\* Byte lengths of the synthesized audio.
BufferLengths == {0, 1, 4096, 4097}

SpeechOutcomes ==
    {[ok |-> TRUE, length |-> l, err |-> ""] : l \in BufferLengths}
        \cup {[ok |-> FALSE, length |-> 0, err |-> e] : e \in ProviderErrors}

\* streamTextToSpeech: the chunks it yields, or the error it throws again.
StreamTextToSpeech(o) ==
    IF o.ok
    THEN [ok |-> TRUE, chunks |-> ChunkSizesFrom(0, o.length), err |-> ""]
    ELSE [ok |-> FALSE, chunks |-> <<>>, err |-> o.err]

-----------------------------------------------------------------------------
(* The express response and what a handler does to it.                     *)

NoRequest == [route |-> "none", message |-> JsUndefined, hasFile |-> FALSE]

FreshResponse == [headersSent |-> FALSE, status |-> 200, bodies |-> <<>>, lines |-> <<>>, ends |-> 0]

\* JSON bodies.  detail is the part of the body taken from a provider error.
ReplyBody(userText, reply) ==
    [kind |-> "reply", userText |-> userText, text |-> reply, error |-> "", detail |-> ""]
SessionBody == [kind |-> "session", userText |-> <<>>, text |-> <<>>, error |-> "", detail |-> ""]
ErrorBody(msg, detail) ==
    [kind |-> "error", userText |-> <<>>, text |-> <<>>, error |-> msg, detail |-> detail]

\* res.status(code).json(body)
Json(res, code, body) ==
    [res EXCEPT !.headersSent = TRUE, !.status = code,
                !.bodies = Append(@, body), !.ends = @ + 1]

\* res.write(line) for every line, in order
WriteAll(res, ls) == [res EXCEPT !.headersSent = TRUE, !.lines = @ \o ls]

\* res.end()
End(res) == [res EXCEPT !.headersSent = TRUE, !.ends = @ + 1]

TextLine(reply) == [type |-> "text", data |-> reply, size |-> Len(reply)]
AudioLine(n) == [type |-> "audio", data |-> <<>>, size |-> n]
RawChunk(n) == [type |-> "raw", data |-> <<>>, size |-> n]

\* a provider call: what was called, with what text, and how it settled
Call(api, input) == [api |-> api, input |-> input, state |-> "pending"]

\* the awaited (last) call settles
Settle(calls, o) ==
    [calls EXCEPT ![Len(calls)].state = IF o.ok THEN "resolved" ELSE "rejected"]

\* the guard without its typeof test
MessageRejectedFalsyOnly(v) == Falsy(v)

\* if (!message || typeof message !== "string") return res.status(400)...
MessageRejected(v) == Falsy(v) \/ TypeOf(v) # "string"

-----------------------------------------------------------------------------
(* The routes of src/server/index.js.  A handler runs to its next await in *)
(* one step; the settling of the awaited provider call is the next step.   *)

\* exchanges on /api/psych in a run
MaxExchanges == 2

\* the conversation grows by the user's text and the reply the client got
Exchange(t, userText, reply) ==
    t \o <<[role |-> "user", content |-> userText], [role |-> "assistant", content |-> reply]>>

\* "You are a supportive psychological companion. ..." (its first word)
THERAPIST_PROMPT == <<89, 111, 117>>

\* the messages askPsychologist gives the chat completion: the system
\* prompt and the user's text
ChatMessages(userText) ==
    <<[role |-> "system", content |-> THERAPIST_PROMPT], [role |-> "user", content |-> userText]>>

\* POST /api/psych, to the await of askPsychologist
PsychRequest(m) ==
    /\ hpc = "idle"
    /\ Len(transcript) < 2 * MaxExchanges
    /\ hreq' = [route |-> "psych", message |-> m, hasFile |-> FALSE]
    /\ IF MessageRejected(m)
       THEN /\ hres' = Json(hres, 400, ErrorBody("message is required", ""))
            /\ hcalls' = hcalls
            /\ hpc' = "done"
       ELSE /\ hcalls' = Append(hcalls, Call("chat", m.s))
            /\ hres' = hres
            /\ hpc' = "chat"
    /\ UNCHANGED <<transcript, gvars, pvars, uvars, rvars, svars, nvars, cvars, bvars, dvars, avars, mvars, tvars>>

\* POST /api/psych with a catch block that only logs
PsychChatSettleSilentCatch(o) ==
    /\ hpc = "chat" /\ hreq.route = "psych"
    /\ LET r == AskPsychologist(o) IN
       /\ hres' = IF r.ok THEN Json(hres, 200, ReplyBody(<<>>, r.text)) ELSE hres
       /\ transcript' = IF r.ok THEN Exchange(transcript, hreq.message.s, r.text) ELSE transcript
    /\ hcalls' = Settle(hcalls, o)
    /\ hpc' = "done"
    /\ UNCHANGED <<hreq, gvars, pvars, uvars, rvars, svars, nvars, cvars, bvars, dvars, avars, mvars, tvars>>

\* POST /api/psych, from the await on: the reply, or the catch block
PsychChatSettle(o) ==
    /\ hpc = "chat" /\ hreq.route = "psych"
    /\ LET r == AskPsychologist(o) IN
       /\ hres' = IF r.ok
                  THEN Json(hres, 200, ReplyBody(<<>>, r.text))
                  ELSE Json(hres, 500, ErrorBody("Something went wrong", ""))
       /\ transcript' = IF r.ok THEN Exchange(transcript, hreq.message.s, r.text) ELSE transcript
    /\ hcalls' = Settle(hcalls, o)
    /\ hpc' = "done"
    /\ UNCHANGED <<hreq, gvars, pvars, uvars, rvars, svars, nvars, cvars, bvars, dvars, avars, mvars, tvars>>

\* POST /api/psych-stream, to the await of askPsychologist
PsychStreamRequest(m) ==
    /\ hpc = "idle"
    /\ hreq' = [route |-> "psych-stream", message |-> m, hasFile |-> FALSE]
    /\ IF MessageRejected(m)
       THEN /\ hres' = Json(hres, 400, ErrorBody("message is required", ""))
            /\ hcalls' = hcalls
            /\ hpc' = "done"
       ELSE /\ hcalls' = Append(hcalls, Call("chat", m.s))
            /\ hres' = hres
            /\ hpc' = "chat"
    /\ UNCHANGED <<transcript, gvars, pvars, uvars, rvars, svars, nvars, cvars, bvars, dvars, avars, mvars, tvars>>

\* POST /api/psych-stream: the text line and the start of the speech call, or
\* the outer catch block
PsychStreamChatSettle(o) ==
    /\ hpc = "chat" /\ hreq.route = "psych-stream"
    /\ LET r == AskPsychologist(o) IN
       IF r.ok
       THEN /\ hres' = WriteAll(hres, <<TextLine(r.text)>>)
            /\ hcalls' = Append(Settle(hcalls, o), Call("speech", r.text))
            /\ hpc' = "speech"
       ELSE /\ hres' = IF ~hres.headersSent
                       THEN Json(hres, 500, ErrorBody("Something went wrong", ""))
                       ELSE hres
            /\ hcalls' = Settle(hcalls, o)
            /\ hpc' = "done"
    /\ UNCHANGED <<hreq, transcript, gvars, pvars, uvars, rvars, svars, nvars, cvars, bvars, dvars, avars, mvars, tvars>>

\* a route that writes the text line again once the audio is through
PsychStreamSpeechSettleTextLast(o) ==
    /\ hpc = "speech" /\ hreq.route = "psych-stream"
    /\ LET sp == StreamTextToSpeech(o) IN
       hres' = IF sp.ok
               THEN End(WriteAll(hres, [i \in 1..Len(sp.chunks) |-> AudioLine(sp.chunks[i])]
                                         \o <<TextLine(hcalls[Len(hcalls)].input)>>))
               ELSE IF ~hres.headersSent
                    THEN Json(hres, 500, ErrorBody("Failed during streaming", ""))
                    ELSE End(hres)
    /\ hcalls' = Settle(hcalls, o)
    /\ hpc' = "done"
    /\ UNCHANGED <<hreq, transcript, gvars, pvars, uvars, rvars, svars, nvars, cvars, bvars, dvars, avars, mvars, tvars>>

\* POST /api/psych-stream: the audio lines and res.end(), or the inner catch
PsychStreamSpeechSettle(o) ==
    /\ hpc = "speech" /\ hreq.route = "psych-stream"
    /\ LET sp == StreamTextToSpeech(o) IN
       hres' = IF sp.ok
               THEN End(WriteAll(hres, [i \in 1..Len(sp.chunks) |-> AudioLine(sp.chunks[i])]))
               ELSE IF ~hres.headersSent
                    THEN Json(hres, 500, ErrorBody("Failed during streaming", ""))
                    ELSE End(hres)
    /\ hcalls' = Settle(hcalls, o)
    /\ hpc' = "done"
    /\ UNCHANGED <<hreq, transcript, gvars, pvars, uvars, rvars, svars, nvars, cvars, bvars, dvars, avars, mvars, tvars>>

\* an inner catch block that leaves a started stream open
PsychStreamLoopThrowsNoEnd(o, k) ==
    /\ hpc = "speech" /\ hreq.route = "psych-stream"
    /\ o.ok
    /\ LET sp == StreamTextToSpeech(o) IN
       /\ k \in 1..Len(sp.chunks)
       /\ hres' = WriteAll(hres, [i \in 1..(k - 1) |-> AudioLine(sp.chunks[i])])
    /\ hcalls' = [hcalls EXCEPT ![Len(hcalls)].state = "interrupted"]
    /\ hpc' = "done"
    /\ UNCHANGED <<hreq, transcript, gvars, pvars, uvars, rvars, svars, nvars, cvars, bvars, dvars, avars, mvars, tvars>>

\* POST /api/psych-stream: the body of the for-await loop throws at chunk k
\* (k - 1 audio lines are written); the inner catch finds the headers sent
\* and ends the response
PsychStreamLoopThrows(o, k) ==
    /\ hpc = "speech" /\ hreq.route = "psych-stream"
    /\ o.ok
    /\ LET sp == StreamTextToSpeech(o) IN
       /\ k \in 1..Len(sp.chunks)
       /\ hres' = LET written == WriteAll(hres, [i \in 1..(k - 1) |-> AudioLine(sp.chunks[i])])
                  IN  IF ~written.headersSent
                      THEN Json(written, 500, ErrorBody("Failed during streaming", ""))
                      ELSE End(written)
    /\ hcalls' = [hcalls EXCEPT ![Len(hcalls)].state = "interrupted"]
    /\ hpc' = "done"
    /\ UNCHANGED <<hreq, transcript, gvars, pvars, uvars, rvars, svars, nvars, cvars, bvars, dvars, avars, mvars, tvars>>

\* POST /api/tts, to the first await inside streamTextToSpeech
TtsRequest(m) ==
    /\ hpc = "idle"
    /\ hreq' = [route |-> "tts", message |-> m, hasFile |-> FALSE]
    /\ IF MessageRejected(m)
       THEN /\ hres' = Json(hres, 400, ErrorBody("text is required", ""))
            /\ hcalls' = hcalls
            /\ hpc' = "done"
       ELSE /\ hcalls' = Append(hcalls, Call("speech", m.s))
            /\ hres' = hres
            /\ hpc' = "speech"
    /\ UNCHANGED <<transcript, gvars, pvars, uvars, rvars, svars, nvars, cvars, bvars, dvars, avars, mvars, tvars>>

\* POST /api/tts: the chunks and res.end(), or the inner catch
TtsSpeechSettle(o) ==
    /\ hpc = "speech" /\ hreq.route = "tts"
    /\ LET sp == StreamTextToSpeech(o) IN
       hres' = IF sp.ok
               THEN End(WriteAll(hres, [i \in 1..Len(sp.chunks) |-> RawChunk(sp.chunks[i])]))
               ELSE IF ~hres.headersSent
                    THEN Json(hres, 500, ErrorBody("Failed during streaming", ""))
                    ELSE End(hres)
    /\ hcalls' = Settle(hcalls, o)
    /\ hpc' = "done"
    /\ UNCHANGED <<hreq, transcript, gvars, pvars, uvars, rvars, svars, nvars, cvars, bvars, dvars, avars, mvars, tvars>>

\* POST /api/transcribe, to the await of the transcription
TranscribeRequest(hasFile) ==
    /\ hpc = "idle"
    /\ hreq' = [route |-> "transcribe", message |-> JsUndefined, hasFile |-> hasFile]
    /\ IF ~hasFile
       THEN /\ hres' = Json(hres, 400, ErrorBody("No audio file uploaded", ""))
            /\ hcalls' = hcalls
            /\ hpc' = "done"
       ELSE /\ hcalls' = Append(hcalls, Call("transcription", <<>>))
            /\ hres' = hres
            /\ hpc' = "transcription"
    /\ UNCHANGED <<transcript, gvars, pvars, uvars, rvars, svars, nvars, cvars, bvars, dvars, avars, mvars, tvars>>

\* POST /api/transcribe: the trimmed text, the empty check, the chat call
TranscriptionSettle(o) ==
    /\ hpc = "transcription" /\ hreq.route = "transcribe"
    /\ IF o.ok
       THEN LET userText == Trim(o.text) IN
            IF userText = <<>>
            THEN /\ hres' = Json(hres, 500, ErrorBody("Transcription is empty", ""))
                 /\ hcalls' = Settle(hcalls, o)
                 /\ hpc' = "done"
            ELSE /\ hcalls' = Append(Settle(hcalls, o), Call("chat", userText))
                 /\ hres' = hres
                 /\ hpc' = "chat"
       ELSE /\ hres' = Json(hres, 500, ErrorBody("Something went wrong", ""))
            /\ hcalls' = Settle(hcalls, o)
            /\ hpc' = "done"
    /\ UNCHANGED <<hreq, transcript, gvars, pvars, uvars, rvars, svars, nvars, cvars, bvars, dvars, avars, mvars, tvars>>

\* POST /api/transcribe: the reply, or the catch block
TranscribeChatSettle(o) ==
    /\ hpc = "chat" /\ hreq.route = "transcribe"
    /\ LET r == AskPsychologist(o) IN
       hres' = IF r.ok
               THEN Json(hres, 200, ReplyBody(hcalls[Len(hcalls)].input, r.text))
               ELSE Json(hres, 500, ErrorBody("Something went wrong", ""))
    /\ hcalls' = Settle(hcalls, o)
    /\ hpc' = "done"
    /\ UNCHANGED <<hreq, transcript, gvars, pvars, uvars, rvars, svars, nvars, cvars, bvars, dvars, avars, mvars, tvars>>

\* POST /api/realtime-session and GET /api/realtime-token, to the await
RealtimeSessionRequest(route) ==
    /\ hpc = "idle"
    /\ route \in {"realtime-session", "realtime-token"}
    /\ hreq' = [route |-> route, message |-> JsUndefined, hasFile |-> FALSE]
    /\ hcalls' = Append(hcalls, Call("session", <<>>))
    /\ hpc' = "session"
    /\ UNCHANGED <<hres, transcript, gvars, pvars, uvars, rvars, svars, nvars, cvars, bvars, dvars, avars, mvars, tvars>>

\* the catch block of POST /api/realtime-session
SessionErrorBody(e) == ErrorBody("Failed to create session: ", e)

\* POST /api/realtime-session: the token, or the catch block
RealtimeSessionSettle(o) ==
    /\ hpc = "session" /\ hreq.route = "realtime-session"
    /\ hres' = IF o.ok
               THEN Json(hres, 200, SessionBody)
               ELSE Json(hres, 500, SessionErrorBody(o.err))
    /\ hcalls' = Settle(hcalls, o)
    /\ hpc' = "done"
    /\ UNCHANGED <<hreq, transcript, gvars, pvars, uvars, rvars, svars, nvars, cvars, bvars, dvars, avars, mvars, tvars>>

\* GET /api/realtime-token: the token, or the catch block
RealtimeTokenSettle(o) ==
    /\ hpc = "session" /\ hreq.route = "realtime-token"
    /\ hres' = IF o.ok
               THEN Json(hres, 200, SessionBody)
               ELSE Json(hres, 500, ErrorBody("Failed to create realtime token", ""))
    /\ hcalls' = Settle(hcalls, o)
    /\ hpc' = "done"
    /\ UNCHANGED <<hreq, transcript, gvars, pvars, uvars, rvars, svars, nvars, cvars, bvars, dvars, avars, mvars, tvars>>

\* The response is complete; the server takes the next request.
NextRequest ==
    /\ hpc = "done"
    /\ hpc' = "idle"
    /\ hreq' = NoRequest
    /\ hcalls' = <<>>
    /\ hres' = FreshResponse
    /\ UNCHANGED <<transcript, gvars, pvars, uvars, rvars, svars, nvars, cvars, bvars, dvars, avars, mvars, tvars>>

HttpInit ==
    /\ hpc = "idle"
    /\ transcript = <<>>
    /\ hreq = NoRequest
    /\ hcalls = <<>>
    /\ hres = FreshResponse

NextHttp ==
    \/ \E m \in Messages : PsychRequest(m)
    \/ \E o \in ChatOutcomes : PsychChatSettle(o)
    \/ \E m \in Messages : PsychStreamRequest(m)
    \/ \E o \in ChatOutcomes : PsychStreamChatSettle(o)
    \/ \E o \in SpeechOutcomes : PsychStreamSpeechSettle(o)
    \/ \E o \in SpeechOutcomes, k \in 1..2 : PsychStreamLoopThrows(o, k)
    \/ \E m \in Messages : TtsRequest(m)
    \/ \E o \in SpeechOutcomes : TtsSpeechSettle(o)
    \/ \E f \in BOOLEAN : TranscribeRequest(f)
    \/ \E o \in TranscriptionOutcomes : TranscriptionSettle(o)
    \/ \E o \in ChatOutcomes : TranscribeChatSettle(o)
    \/ \E r \in {"realtime-session", "realtime-token"} : RealtimeSessionRequest(r)
    \/ \E o \in {Resolved(<<>>)} \cup {Rejected(e) : e \in ProviderErrors} : RealtimeSessionSettle(o)
    \/ \E o \in {Resolved(<<>>)} \cup {Rejected(e) : e \in ProviderErrors} : RealtimeTokenSettle(o)
    \/ NextRequest

-----------------------------------------------------------------------------
(* The crisis gating pipeline (spec.md 4.1 - 4.6).                         *)

\* the Malayalam block U+0D00 - U+0D7F
MalayalamBlock == 3328..3455

\* a detection that looks at the first character only
IsMalayalamAtStart(text) == text # <<>> /\ text[1] \in MalayalamBlock

\* isMalayalam: the text holds a character of the Malayalam block
IsMalayalam(text) == \E i \in 1..Len(text) : text[i] \in MalayalamBlock

Lower(c) == IF c \in 65..90 THEN c + 32 ELSE c

Kept(c) == c \in 97..122 \/ c \in MalayalamBlock \/ IsSpace(c)

RECURSIVE Strip(_)
Strip(t) ==
    IF t = <<>> THEN <<>>
    ELSE IF Kept(Lower(Head(t))) THEN <<Lower(Head(t))>> \o Strip(Tail(t))
    ELSE Strip(Tail(t))

\* runs of white space become one space
RECURSIVE Collapse(_)
Collapse(t) ==
    IF t = <<>> THEN <<>>
    ELSE IF IsSpace(Head(t))
         THEN IF Len(t) > 1 /\ IsSpace(t[2])
              THEN Collapse(Tail(t))
              ELSE <<32>> \o Collapse(Tail(t))
         ELSE <<Head(t)>> \o Collapse(Tail(t))

\* a normalizer that collapses white space before it strips
NormalizeCollapseFirst(t) == Trim(Strip(Collapse(t)))

\* 4.1 Normalizer: lowercase, strip, collapse, trim
Normalize(t) == Trim(Collapse(Strip(t)))

IsSubstring(p, t) ==
    \E i \in 1..(Len(t) - Len(p) + 1) : SubSeq(t, i, i + Len(p) - 1) = p

\* "kill myself"
P_KillMyself == <<107, 105, 108, 108, 32, 109, 121, 115, 101, 108, 102>>

\* the phrases spec.md names (8, concrete scenarios)
CrisisPhrases == {P_KillMyself, U_Marikkan}

\* 4.2 Keyword Crisis Matcher, on normalized text
KeywordTriggered(norm) == \E p \in CrisisPhrases : IsSubstring(p, norm)

\* 4.4 Crisis Response Selector
SafetyScript(text) == IF IsMalayalam(text) THEN "safety-script-ml" ELSE "safety-script-en"

\* InstantResponse: normalized greeting -> canned reply ("hi" -> "Hi there.")
InstantKeys == {U_Hi}
InstantReply(norm) == "Hi there."

\* 4.3 AI Crisis Classifier: what the provider call may come to
ClassifierOutcomes == {"CRISIS", "SAFE", "crisis", "malformed", "error"}

\* a classifier that takes every answer but SAFE for a crisis
ClassifierTriggeredUnlessSafe(o) == o # "SAFE"

\* triggered only on the exact answer CRISIS; every failure is not triggered
ClassifierTriggered(o) == o = "CRISIS"

\* the reply-generation call: a reply text, or a failure
ReplyOutcomes == {Resolved(T_OK), Rejected("Rate limit reached")}

HistoryLimit == 4

\* the last n entries of h
LastN(h, n) == IF Len(h) <= n THEN h ELSE SubSeq(h, Len(h) - n + 1, Len(h))

\* 4.6 appendTurn: push, then keep the last 4
AppendTurn(s, role, content) ==
    [s EXCEPT !.history = LastN(Append(@, [role |-> role, content |-> content]), HistoryLimit)]

\* markCrisisSurfaced of the variant that does not latch
MarkCrisisSurfacedNoLatch(s) == s

\* 4.6 markCrisisSurfaced
MarkCrisisSurfaced(s) == [s EXCEPT !.crisisAlreadySurfaced = TRUE]

\* 4.6 hasCrisisSurfaced
HasCrisisSurfaced(s) == s.crisisAlreadySurfaced

FreshSession == [history |-> <<>>, crisisAlreadySurfaced |-> FALSE]

NoCalls == [classifier |-> "none", answer |-> "none", reply |-> "none", text |-> <<>>]

Outbound(kind, text) == [kind |-> kind, text |-> text, turn |-> gturn]

\* what users say
Utterances == {U_Hi, U_SoTired, U_KillMyself, U_Marikkan, U_Mixed}

\* turns on one connection
MaxTurns == 3

\* handleUserUtterance: an utterance arrives
Receive(u) ==
    /\ gpc = "idle"
    /\ gturn < MaxTurns
    /\ gpc' = "received"
    /\ gutt' = u
    /\ gturn' = gturn + 1
    /\ kwVerdict' = "unknown"
    /\ gcalls' = NoCalls
    /\ UNCHANGED <<session, outbox, hvars, pvars, uvars, rvars, svars, nvars, cvars, bvars, dvars, avars, mvars, tvars>>

\* received -> keyword-checked
KeywordCheck ==
    /\ gpc = "received"
    /\ kwVerdict' = IF KeywordTriggered(Normalize(gutt)) THEN "triggered" ELSE "clear"
    /\ gpc' = "keyword-checked"
    /\ UNCHANGED <<gutt, session, gcalls, outbox, gturn, hvars, pvars, uvars, rvars, svars, nvars, cvars, bvars, dvars, avars, mvars, tvars>>

\* keyword-checked -> crisis-short-circuit -> delivered
CrisisShortCircuit ==
    /\ gpc = "keyword-checked"
    /\ kwVerdict = "triggered" /\ ~HasCrisisSurfaced(session)
    /\ session' = MarkCrisisSurfaced(session)
    /\ outbox' = Append(outbox, Outbound("crisis", SafetyScript(gutt)))
    /\ gpc' = "delivered"
    /\ UNCHANGED <<gutt, kwVerdict, gcalls, gturn, hvars, pvars, uvars, rvars, svars, nvars, cvars, bvars, dvars, avars, mvars, tvars>>

\* keyword-checked -> instant-match -> delivered
InstantMatch ==
    /\ gpc = "keyword-checked"
    /\ kwVerdict = "clear" /\ Normalize(gutt) \in InstantKeys
    /\ outbox' = Append(outbox, Outbound("instant", InstantReply(Normalize(gutt))))
    /\ gpc' = "delivered"
    /\ UNCHANGED <<gutt, session, kwVerdict, gcalls, gturn, hvars, pvars, uvars, rvars, svars, nvars, cvars, bvars, dvars, avars, mvars, tvars>>

\* keyword-checked -> model-dispatch: both calls are issued together; the
\* classifier is not called for an utterance the keyword matcher triggered on
ModelDispatch ==
    /\ gpc = "keyword-checked"
    /\ ~(kwVerdict = "triggered" /\ ~HasCrisisSurfaced(session))
    /\ ~(kwVerdict = "clear" /\ Normalize(gutt) \in InstantKeys)
    /\ gcalls' = [classifier |-> IF kwVerdict = "clear" THEN "pending" ELSE "safe",
                  answer |-> "none", reply |-> "pending", text |-> <<>>]
    /\ gpc' = "model-dispatch"
    /\ UNCHANGED <<gutt, session, kwVerdict, outbox, gturn, hvars, pvars, uvars, rvars, svars, nvars, cvars, bvars, dvars, avars, mvars, tvars>>

\* the classifier call settles
ClassifierSettle(o) ==
    /\ gpc = "model-dispatch" /\ gcalls.classifier = "pending"
    /\ gcalls' = [gcalls EXCEPT !.classifier = IF ClassifierTriggered(o) THEN "crisis" ELSE "safe",
                                !.answer = o]
    /\ UNCHANGED <<gpc, gutt, session, kwVerdict, outbox, gturn, hvars, pvars, uvars, rvars, svars, nvars, cvars, bvars, dvars, avars, mvars, tvars>>

\* the reply-generation call settles
ReplySettle(o) ==
    /\ gpc = "model-dispatch" /\ gcalls.reply = "pending"
    /\ gcalls' = [gcalls EXCEPT !.reply = IF o.ok THEN "ok" ELSE "failed", !.text = o.text]
    /\ UNCHANGED <<gpc, gutt, session, kwVerdict, outbox, gturn, hvars, pvars, uvars, rvars, svars, nvars, cvars, bvars, dvars, avars, mvars, tvars>>

\* the reconciliation of a variant that classifies after generating and
\* delivers as soon as the reply call has settled
ReconcileOnReply ==
    /\ gpc = "model-dispatch"
    /\ gcalls.reply # "pending"
    /\ IF gcalls.classifier = "crisis" /\ ~HasCrisisSurfaced(session)
       THEN /\ session' = MarkCrisisSurfaced(session)
            /\ outbox' = Append(outbox, Outbound("crisis", SafetyScript(gutt)))
       ELSE IF gcalls.reply = "failed"
       THEN /\ session' = session
            /\ outbox' = Append(outbox, Outbound("fallback", "default-message"))
       ELSE /\ session' = AppendTurn(AppendTurn(session, "user", gutt), "assistant", gcalls.text)
            /\ outbox' = Append(outbox, Outbound("reply", "generated"))
    /\ gpc' = "delivered"
    /\ UNCHANGED <<gutt, kwVerdict, gcalls, gturn, hvars, pvars, uvars, rvars, svars, nvars, cvars, bvars, dvars, avars, mvars, tvars>>

\* model-dispatch -> delivered, when both calls have settled
Reconcile ==
    /\ gpc = "model-dispatch"
    /\ gcalls.classifier # "pending" /\ gcalls.reply # "pending"
    /\ IF gcalls.classifier = "crisis" /\ ~HasCrisisSurfaced(session)
       THEN /\ session' = MarkCrisisSurfaced(session)
            /\ outbox' = Append(outbox, Outbound("crisis", SafetyScript(gutt)))
       ELSE IF gcalls.reply = "failed"
       THEN /\ session' = session
            /\ outbox' = Append(outbox, Outbound("fallback", "default-message"))
       ELSE /\ session' = AppendTurn(AppendTurn(session, "user", gutt), "assistant", gcalls.text)
            /\ outbox' = Append(outbox, Outbound("reply", "generated"))
    /\ gpc' = "delivered"
    /\ UNCHANGED <<gutt, kwVerdict, gcalls, gturn, hvars, pvars, uvars, rvars, svars, nvars, cvars, bvars, dvars, avars, mvars, tvars>>

\* the turn is over
EndTurn ==
    /\ gpc = "delivered"
    /\ gpc' = "idle"
    /\ UNCHANGED <<gutt, session, kwVerdict, gcalls, outbox, gturn, hvars, pvars, uvars, rvars, svars, nvars, cvars, bvars, dvars, avars, mvars, tvars>>

\* connection close and a new connection: a new session
Reconnect ==
    /\ gpc = "idle" /\ gturn > 0
    /\ session' = FreshSession
    /\ outbox' = <<>>
    /\ gturn' = 0
    /\ gutt' = <<>>
    /\ kwVerdict' = "unknown"
    /\ gcalls' = NoCalls
    /\ UNCHANGED <<gpc, hvars, pvars, uvars, rvars, svars, nvars, cvars, bvars, dvars, avars, mvars, tvars>>

GateInit ==
    /\ gpc = "idle"
    /\ gutt = <<>>
    /\ session = FreshSession
    /\ kwVerdict = "unknown"
    /\ gcalls = NoCalls
    /\ outbox = <<>>
    /\ gturn = 0

NextGate ==
    \/ \E u \in Utterances : Receive(u)
    \/ KeywordCheck
    \/ CrisisShortCircuit
    \/ InstantMatch
    \/ ModelDispatch
    \/ \E o \in ClassifierOutcomes : ClassifierSettle(o)
    \/ \E o \in ReplyOutcomes : ReplySettle(o)
    \/ Reconcile
    \/ EndTurn
    \/ Reconnect

-----------------------------------------------------------------------------
(* The /realtime WebSocket proxy: wss.on("connection") of index.js.  Each  *)
(* accepted connection has the browser's socket (clientWs) and a socket to *)
(* the provider (backendWs) that the handler opens for it.                 *)

\* connections the server accepts in a run
MaxConns == 2

\* messages the proxy receives in a run, from browsers and from the provider
MaxProxyMsgs == 2

ConnIds == 1..MaxConns

Unused == [client |-> "none", backend |-> "none", toBackend |-> <<>>, toClient |-> <<>>,
           fromClient |-> <<>>]

\* new WebSocket(REALTIME_URL, ...) beside the accepted clientWs
FreshConn == [client |-> "OPEN", backend |-> "CONNECTING", toBackend |-> <<>>, toClient |-> <<>>,
              fromClient |-> <<>>]

\* a message received on connection k; n: its place among the messages the
\* connection has carried; json: it is JSON text
Msg(k, json) ==
    [conn |-> k, n |-> Len(conn[k].fromClient) + Len(conn[k].toClient) + 1,
     json |-> json, type |-> "data"]

\* JSON.stringify({ type: "error", error: { message: "Backend connection error" } })
BackendErrorMsg(k) == [conn |-> k, n |-> 0, json |-> TRUE, type |-> "error"]

\* one backend socket for all connections: the latest one opened
BackendOfShared(k) == nconn

\* the backendWs the handlers of connection k have captured
BackendOf(k) == k

\* the clientWs the handlers of connection k have captured
ClientOf(k) == k

\* ws.send on socket state st delivers only if the socket is open
Delivers(st) == st = "OPEN"

\* ws.close(): an open or connecting socket starts closing
CloseSocket(st) == IF st \in {"OPEN", "CONNECTING"} THEN "CLOSING" ELSE st

\* wss.on("connection"): a browser connects (for the first time or again)
Connection ==
    /\ nconn < MaxConns
    /\ nconn' = nconn + 1
    /\ conn' = [conn EXCEPT ![nconn + 1] = FreshConn]
    /\ UNCHANGED <<nmsg, hvars, gvars, uvars, rvars, svars, nvars, cvars, bvars, dvars, avars, mvars, tvars>>

\* backendWs.on("open")
BackendOpen(k) ==
    /\ conn[k].backend = "CONNECTING"
    /\ conn' = [conn EXCEPT ![k].backend = "OPEN"]
    /\ UNCHANGED <<nconn, nmsg, hvars, gvars, uvars, rvars, svars, nvars, cvars, bvars, dvars, avars, mvars, tvars>>

\* backendWs.on("message"): logged (JSON or not), then sent to the client as
\* it is
BackendMessage(k) ==
    /\ conn[k].backend = "OPEN"
    /\ nmsg < MaxProxyMsgs
    /\ nmsg' = nmsg + 1
    /\ conn' = IF Delivers(conn[ClientOf(k)].client)
               THEN [conn EXCEPT ![ClientOf(k)].toClient = Append(@, Msg(k, TRUE))]
               ELSE conn
    /\ UNCHANGED <<nconn, hvars, gvars, uvars, rvars, svars, nvars, cvars, bvars, dvars, avars, mvars, tvars>>

\* backendWs.on("error"): a fixed error message to the client; the socket
\* closes after an error
BackendError(k) ==
    /\ conn[k].backend \in {"CONNECTING", "OPEN"}
    /\ conn' = [conn EXCEPT
                  ![k].backend = "CLOSING",
                  ![ClientOf(k)].toClient =
                      IF Delivers(conn[ClientOf(k)].client)
                      THEN Append(@, BackendErrorMsg(k)) ELSE @]
    /\ UNCHANGED <<nconn, nmsg, hvars, gvars, uvars, rvars, svars, nvars, cvars, bvars, dvars, avars, mvars, tvars>>

\* a close handler of the backend socket that leaves the client socket open
BackendCloseKeepsClient(k) ==
    /\ conn[k].backend \in {"OPEN", "CLOSING"}
    /\ conn' = [conn EXCEPT ![k].backend = "CLOSED"]
    /\ UNCHANGED <<nconn, nmsg, hvars, gvars, uvars, rvars, svars, nvars, cvars, bvars, dvars, avars, mvars, tvars>>

\* backendWs.on("close"): clientWs.close()
BackendClose(k) ==
    /\ conn[k].backend \in {"OPEN", "CLOSING"}
    /\ conn' = [conn EXCEPT ![k].backend = "CLOSED",
                            ![ClientOf(k)].client = CloseSocket(@)]
    /\ UNCHANGED <<nconn, nmsg, hvars, gvars, uvars, rvars, svars, nvars, cvars, bvars, dvars, avars, mvars, tvars>>

\* the client's message as the handler got it, with backendWs.readyState
\* at that moment
Received(k, json) == [msg |-> Msg(k, json), readyState |-> conn[BackendOf(k)].backend]

\* a handler that sends to the backend while it is still connecting, as if
\* the socket queued what is sent before it opens
ClientMessageQueued(k, json) ==
    /\ conn[k].client = "OPEN"
    /\ nmsg < MaxProxyMsgs
    /\ nmsg' = nmsg + 1
    /\ conn' = IF conn[BackendOf(k)].backend \in {"OPEN", "CONNECTING"}
               THEN [conn EXCEPT ![BackendOf(k)].toBackend = Append(@, Msg(k, json)),
                                 ![k].fromClient = Append(@, Received(k, json))]
               ELSE [conn EXCEPT ![k].fromClient = Append(@, Received(k, json))]
    /\ UNCHANGED <<nconn, hvars, gvars, uvars, rvars, svars, nvars, cvars, bvars, dvars, avars, mvars, tvars>>

\* clientWs.on("message"): logged (JSON or not), then sent to the backend if
\* it is open, dropped otherwise
ClientMessage(k, json) ==
    /\ conn[k].client = "OPEN"
    /\ nmsg < MaxProxyMsgs
    /\ nmsg' = nmsg + 1
    /\ conn' = IF conn[BackendOf(k)].backend = "OPEN"
               THEN [conn EXCEPT ![BackendOf(k)].toBackend = Append(@, Msg(k, json)),
                                 ![k].fromClient = Append(@, Received(k, json))]
               ELSE [conn EXCEPT ![k].fromClient = Append(@, Received(k, json))]
    /\ UNCHANGED <<nconn, hvars, gvars, uvars, rvars, svars, nvars, cvars, bvars, dvars, avars, mvars, tvars>>

\* clientWs.on("close"): backendWs.close()
ClientClose(k) ==
    /\ conn[k].client \in {"OPEN", "CLOSING"}
    /\ conn' = [conn EXCEPT ![k].client = "CLOSED",
                            ![BackendOf(k)].backend = CloseSocket(@)]
    /\ UNCHANGED <<nconn, nmsg, hvars, gvars, uvars, rvars, svars, nvars, cvars, bvars, dvars, avars, mvars, tvars>>

\* clientWs.on("error"): backendWs.close(); the socket closes after an error
ClientError(k) ==
    /\ conn[k].client = "OPEN"
    /\ conn' = [conn EXCEPT ![k].client = "CLOSING",
                            ![BackendOf(k)].backend = CloseSocket(@)]
    /\ UNCHANGED <<nconn, nmsg, hvars, gvars, uvars, rvars, svars, nvars, cvars, bvars, dvars, avars, mvars, tvars>>

ProxyInit ==
    /\ nconn = 0
    /\ conn = [k \in ConnIds |-> Unused]
    /\ nmsg = 0

\* the steps that open and close sockets; the two message handlers change
\* no socket's state
NextProxySockets ==
    \/ Connection
    \/ \E k \in ConnIds : BackendOpen(k)
    \/ \E k \in ConnIds : BackendError(k)
    \/ \E k \in ConnIds : BackendClose(k)
    \/ \E k \in ConnIds : ClientClose(k)
    \/ \E k \in ConnIds : ClientError(k)

NextProxy ==
    \/ Connection
    \/ \E k \in ConnIds : BackendOpen(k)
    \/ \E k \in ConnIds : BackendMessage(k)
    \/ \E k \in ConnIds : BackendError(k)
    \/ \E k \in ConnIds : BackendClose(k)
    \/ \E k \in ConnIds, j \in BOOLEAN : ClientMessage(k, j)
    \/ \E k \in ConnIds : ClientClose(k)
    \/ \E k \in ConnIds : ClientError(k)

-----------------------------------------------------------------------------
(* The browser chat client: handleSendText of src/ui/src/App.tsx, which    *)
(* awaits the reply, and of the snapshots src/unnamed/part_008 and         *)
(* part_007, which send and return.                                        *)

\* utterances a user sends in a run
MaxSends == 2

UiVariants == {"App.tsx", "part_008", "part_007"}

\* what the input box may hold when the user presses Enter
InputTexts == {U_Empty, U_Space, U_Hi}

\* the greeting the list starts with
Greeting == [sender |-> "ai", turn |-> 0, written |-> <<>>]

UserMessage(t) == [sender |-> "user", turn |-> t, written |-> <<>>]

\* the empty AI message added for turn t
Placeholder(t) == [sender |-> "ai", turn |-> t, written |-> <<>>]

\* "I apologize, I had trouble processing your message. Could you try again?"
ErrorMessage(t) == [sender |-> "ai", turn |-> t, written |-> <<[turn |-> t, kind |-> "apology"]>>]

\* if (!inputText.trim() || isProcessing) return;
SendRefused(text) == Trim(text) = <<>> \/ isProcessing

\* App.tsx handleSendText, to the await of sendTextMessage
HandleSendTextAwait(text) ==
    /\ uiVariant = "App.tsx"
    /\ usends < MaxSends
    /\ ~SendRefused(text)
    /\ usends' = usends + 1
    /\ messages' = messages \o <<UserMessage(usends + 1), Placeholder(usends + 1)>>
    /\ isProcessing' = TRUE
    /\ inFlight' = inFlight \cup {usends + 1}
    /\ UNCHANGED <<uiVariant, hvars, gvars, pvars, rvars, svars, nvars, cvars, bvars, dvars, avars, mvars, tvars>>

\* App.tsx handleSendText, after the await: the reply replaces the last message
SendResolves(t) ==
    /\ uiVariant = "App.tsx"
    /\ t \in inFlight
    /\ messages' = [messages EXCEPT ![Len(messages)] =
                        [sender |-> "ai", turn |-> @.turn,
                         written |-> <<[turn |-> t, kind |-> "reply"]>>]]
    /\ isProcessing' = FALSE
    /\ inFlight' = inFlight \ {t}
    /\ UNCHANGED <<uiVariant, usends, hvars, gvars, pvars, rvars, svars, nvars, cvars, bvars, dvars, avars, mvars, tvars>>

\* App.tsx handleSendText, the catch block: an apology is appended
SendRejects(t) ==
    /\ uiVariant = "App.tsx"
    /\ t \in inFlight
    /\ messages' = Append(messages, ErrorMessage(t))
    /\ isProcessing' = FALSE
    /\ inFlight' = inFlight \ {t}
    /\ UNCHANGED <<uiVariant, usends, hvars, gvars, pvars, rvars, svars, nvars, cvars, bvars, dvars, avars, mvars, tvars>>

\* part_008 / part_007 handleSendText: setIsProcessing(true), the send, and
\* setIsProcessing(false) in one synchronous handler
HandleSendTextNoAwait(text) ==
    /\ uiVariant \in {"part_008", "part_007"}
    /\ usends < MaxSends
    /\ ~SendRefused(text)
    /\ usends' = usends + 1
    /\ messages' = messages \o <<UserMessage(usends + 1), Placeholder(usends + 1)>>
    /\ isProcessing' = FALSE
    /\ inFlight' = inFlight \cup {usends + 1}
    /\ UNCHANGED <<uiVariant, hvars, gvars, pvars, rvars, svars, nvars, cvars, bvars, dvars, avars, mvars, tvars>>

\* the callback given to initPsychWebSocket: a chunk, or the complete reply,
\* of turn t is written to the last message if that is an AI message
AiChunk(t, isComplete) ==
    /\ uiVariant \in {"part_008", "part_007"}
    /\ t \in inFlight
    /\ LET last == messages[Len(messages)]
           part == [turn |-> t, kind |-> IF isComplete THEN "reply" ELSE "chunk"] IN
       messages' = IF last.sender = "ai"
                   THEN [messages EXCEPT ![Len(messages)].written =
                            IF isComplete THEN <<part>>
                            ELSE IF Len(@) < 2 THEN Append(@, part) ELSE @]
                   ELSE messages
    /\ inFlight' = IF isComplete THEN inFlight \ {t} ELSE inFlight
    /\ UNCHANGED <<uiVariant, isProcessing, usends, hvars, gvars, pvars, rvars, svars, nvars, cvars, bvars, dvars, avars, mvars, tvars>>

\* the page loads one of the App components
Mount(v) ==
    /\ uiVariant = "none"
    /\ uiVariant' = v
    /\ UNCHANGED <<isProcessing, messages, inFlight, usends, hvars, gvars, pvars, rvars, svars, nvars, cvars, bvars, dvars, avars, mvars, tvars>>

UiInit ==
    /\ uiVariant = "none"
    /\ isProcessing = FALSE
    /\ messages = <<Greeting>>
    /\ inFlight = {}
    /\ usends = 0

NextUi ==
    \/ \E v \in UiVariants : Mount(v)
    \/ \E x \in InputTexts : HandleSendTextAwait(x)
    \/ \E t \in 1..MaxSends : SendResolves(t)
    \/ \E t \in 1..MaxSends : SendRejects(t)
    \/ \E x \in InputTexts : HandleSendTextNoAwait(x)
    \/ \E t \in 1..MaxSends, c \in BOOLEAN : AiChunk(t, c)

-----------------------------------------------------------------------------
(* askRealtimePsychologist: one call, its WebSocket to the provider and    *)
(* the promise it returns.  index.js and realtimeClient.mjs each have one. *)

\* frames the socket delivers in a run
MaxFrames == 3

RtVariants == {"index.js", "realtimeClient.mjs"}

\* what a frame may be: text that is not JSON, or an event of some type
FrameTypes == {"non-json", "response.text.delta", "response.text.done",
               "response.done", "error", "session.created"}

\* msg.delta of an event: absent, or a string
Deltas == {[present |-> FALSE, text |-> <<>>],
           [present |-> TRUE, text |-> <<32>>],
           [present |-> TRUE, text |-> T_OK]}

\* String(undefined), what += appends for an absent delta
UndefinedText == <<117, 110, 100, 101, 102, 105, 110, 101, 100>>

\* "I'm here with you. I had trouble forming a full reply. Can you say a bit more?"
TroubleReply == <<73, 8217, 109, 32, 104, 101, 114, 101>>

Pending == [state |-> "pending", value |-> <<>>]

\* resolve(value): only a pending promise changes
Resolve(pr, value) == IF pr.state = "pending" THEN [state |-> "resolved", value |-> value] ELSE pr

\* reject(err): only a pending promise changes
Reject(pr) == IF pr.state = "pending" THEN [state |-> "rejected", value |-> <<>>] ELSE pr

\* askRealtimePsychologist(userText): new Promise, new WebSocket
RtCall(v) ==
    /\ rtVariant = "none"
    /\ rtVariant' = v
    /\ rtWs' = "CONNECTING"
    /\ rtPromise' = Pending
    /\ UNCHANGED <<rtSent, fullText, rtFrames, rtLast, rtCrashed, hvars, gvars, pvars, uvars, svars, nvars, cvars, bvars, dvars, avars, mvars, tvars>>

\* ws.on("open"): session.update, conversation.item.create, response.create
RtOpen ==
    /\ rtWs = "CONNECTING" /\ ~rtCrashed
    /\ rtWs' = "OPEN"
    /\ rtSent' = <<"session.update", "conversation.item.create", "response.create">>
    /\ UNCHANGED <<rtVariant, fullText, rtPromise, rtFrames, rtLast, rtCrashed, hvars, gvars, pvars, uvars, svars, nvars, cvars, bvars, dvars, avars, mvars, tvars>>

\* ws.on("message") of index.js: a frame that does not parse is logged and
\* dropped; delta, response.done and error events are handled
RtMessageIndex(type, delta) ==
    /\ rtVariant = "index.js"
    /\ rtWs \in {"OPEN", "CLOSING"} /\ ~rtCrashed
    /\ rtFrames < MaxFrames
    /\ rtFrames' = rtFrames + 1
    /\ rtLast' = type
    /\ CASE type = "non-json" -> UNCHANGED <<rtWs, rtPromise, fullText>>
         [] type = "response.text.delta" ->
                /\ fullText' = IF delta.present /\ delta.text # <<>>
                               THEN fullText \o delta.text ELSE fullText
                /\ UNCHANGED <<rtWs, rtPromise>>
         [] type = "response.done" ->
                /\ rtWs' = CloseSocket(rtWs)
                /\ rtPromise' = Resolve(rtPromise,
                                  IF Trim(fullText) # <<>> THEN Trim(fullText) ELSE TroubleReply)
                /\ UNCHANGED fullText
         [] type = "error" ->
                /\ rtWs' = CloseSocket(rtWs)
                /\ rtPromise' = Reject(rtPromise)
                /\ UNCHANGED fullText
         [] OTHER -> UNCHANGED <<rtWs, rtPromise, fullText>>
    /\ UNCHANGED <<rtVariant, rtSent, rtCrashed, hvars, gvars, pvars, uvars, svars, nvars, cvars, bvars, dvars, avars, mvars, tvars>>

\* ws.on("message") of realtimeClient.mjs: JSON.parse is not guarded, so a
\* frame that does not parse throws out of the listener; delta and
\* response.text.done events are handled
RtMessageMjs(type, delta) ==
    /\ rtVariant = "realtimeClient.mjs"
    /\ rtWs \in {"OPEN", "CLOSING"} /\ ~rtCrashed
    /\ rtFrames < MaxFrames
    /\ rtFrames' = rtFrames + 1
    /\ rtLast' = type
    /\ rtCrashed' = (type = "non-json")
    /\ IF type = "response.text.delta"
       THEN /\ fullText' = fullText \o (IF delta.present THEN delta.text ELSE UndefinedText)
            /\ UNCHANGED <<rtWs, rtPromise>>
       ELSE IF type = "response.text.done"
       THEN /\ rtWs' = CloseSocket(rtWs)
            /\ rtPromise' = Resolve(rtPromise, Trim(fullText))
            /\ UNCHANGED fullText
       ELSE UNCHANGED <<rtWs, rtPromise, fullText>>
    /\ UNCHANGED <<rtVariant, rtSent, hvars, gvars, pvars, uvars, svars, nvars, cvars, bvars, dvars, avars, mvars, tvars>>

\* ws.on("error"): reject(err); the socket closes after an error
RtSocketError ==
    /\ rtWs \in {"CONNECTING", "OPEN"} /\ ~rtCrashed
    /\ rtWs' = "CLOSING"
    /\ rtPromise' = Reject(rtPromise)
    /\ UNCHANGED <<rtVariant, rtSent, fullText, rtFrames, rtLast, rtCrashed, hvars, gvars, pvars, uvars, svars, nvars, cvars, bvars, dvars, avars, mvars, tvars>>

\* the socket closes; index.js has no close listener, realtimeClient.mjs an
\* empty one
RtSocketClose ==
    /\ rtWs \in {"OPEN", "CLOSING"} /\ ~rtCrashed
    /\ rtWs' = "CLOSED"
    /\ UNCHANGED <<rtVariant, rtSent, fullText, rtPromise, rtFrames, rtLast, rtCrashed, hvars, gvars, pvars, uvars, svars, nvars, cvars, bvars, dvars, avars, mvars, tvars>>

RealtimeInit ==
    /\ rtVariant = "none"
    /\ rtWs = "none"
    /\ rtSent = <<>>
    /\ fullText = <<>>
    /\ rtPromise = [state |-> "none", value |-> <<>>]
    /\ rtFrames = 0
    /\ rtLast = "none"
    /\ rtCrashed = FALSE

NextRealtime ==
    \/ \E v \in RtVariants : RtCall(v)
    \/ RtOpen
    \/ \E t \in FrameTypes, d \in Deltas : RtMessageIndex(t, d)
    \/ \E t \in FrameTypes, d \in Deltas : RtMessageMjs(t, d)
    \/ RtSocketError
    \/ RtSocketClose

-----------------------------------------------------------------------------
(* textToSpeech of the browser client (src/ui/src/utils/audioUtils.ts):    *)
(* browser speech synthesis for Malayalam text, the server's /api/tts      *)
(* otherwise and as the fallback.                                          *)

\* calls of textToSpeech in a run
MaxSpeeches == 2

SpeechTexts == {U_Hi, U_KillMyself, U_Marikkan, U_Mixed, U_Empty}

\* speakWithBrowser(text, lang)
SpeechSynthesis(lang) == [what |-> "speechSynthesis", lang |-> lang]

\* fetch(`${API_BASE_URL}/api/tts`, { method: 'POST', ... })
FetchTts == [what |-> "POST /api/tts", lang |-> ""]

\* speakWithBrowser: no speechSynthesis in window, utter.onend, utter.onerror
SpeakOutcomes == {"unsupported", "onend", "onerror"}

\* fetch: a network error, or a response with its ok flag, and whether the
\* body can be streamed (response.body && 'MediaSource' in window)
FetchOutcomes ==
    {[settled |-> "rejected", ok |-> FALSE, streams |-> FALSE]}
        \cup {[settled |-> "resolved", ok |-> k, streams |-> m] : k \in BOOLEAN, m \in BOOLEAN}

\* textToSpeech(text), to its first await
TextToSpeech(text) ==
    /\ spPc = "idle" /\ spCalls < MaxSpeeches
    /\ spCalls' = spCalls + 1
    /\ spText' = text
    /\ spPromise' = "pending"
    /\ IF IsMalayalam(text)
       THEN /\ spPc' = "speakWithBrowser"
            /\ spTried' = <<SpeechSynthesis("ml-IN")>>
            /\ spSpeech' = "pending"
       ELSE /\ spPc' = "fetch"
            /\ spTried' = <<FetchTts>>
            /\ spSpeech' = "none"
    /\ UNCHANGED <<hvars, gvars, pvars, uvars, rvars, nvars, cvars, bvars, dvars, avars, mvars, tvars>>

\* a textToSpeech whose catch block around speakWithBrowser throws again
SpeakWithBrowserSettleNoFallback(o) ==
    /\ spPc = "speakWithBrowser"
    /\ IF o = "onend"
       THEN /\ spSpeech' = "resolved"
            /\ spPromise' = "resolved"
            /\ spPc' = "returned"
            /\ UNCHANGED spTried
       ELSE /\ spSpeech' = "rejected"
            /\ spPromise' = "rejected"
            /\ spPc' = "returned"
            /\ UNCHANGED spTried
    /\ UNCHANGED <<spText, spCalls, hvars, gvars, pvars, uvars, rvars, nvars, cvars, bvars, dvars, avars, mvars, tvars>>

\* await speakWithBrowser(text, 'ml-IN') settles: return, or the catch block
\* and on to the server
SpeakWithBrowserSettle(o) ==
    /\ spPc = "speakWithBrowser"
    /\ IF o = "onend"
       THEN /\ spSpeech' = "resolved"
            /\ spPromise' = "resolved"
            /\ spPc' = "returned"
            /\ UNCHANGED spTried
       ELSE /\ spSpeech' = "rejected"
            /\ spPc' = "fetch"
            /\ spTried' = Append(spTried, FetchTts)
            /\ UNCHANGED spPromise
    /\ UNCHANGED <<spText, spCalls, hvars, gvars, pvars, uvars, rvars, nvars, cvars, bvars, dvars, avars, mvars, tvars>>

\* await fetch(.../api/tts) settles: throw on a network error or a response
\* that is not ok; stream through MediaSource; or take the whole buffer
FetchTtsSettle(o) ==
    /\ spPc = "fetch"
    /\ IF o.settled = "rejected" \/ ~o.ok
       THEN /\ spPromise' = "rejected"
            /\ spPc' = "returned"
       ELSE IF o.streams
       THEN /\ spPc' = "streamToMediaSource"
            /\ UNCHANGED spPromise
       ELSE /\ spPc' = "arrayBuffer"
            /\ UNCHANGED spPromise
    /\ UNCHANGED <<spText, spTried, spSpeech, spCalls, hvars, gvars, pvars, uvars, rvars, nvars, cvars, bvars, dvars, avars, mvars, tvars>>

\* await streamToMediaSource(reader) settles: done, or the catch block asks
\* the server again for the complete buffer
StreamToMediaSourceSettle(ok) ==
    /\ spPc = "streamToMediaSource"
    /\ IF ok
       THEN /\ spPromise' = "resolved"
            /\ spPc' = "returned"
            /\ UNCHANGED spTried
       ELSE /\ spPc' = "arrayBuffer"
            /\ spTried' = Append(spTried, FetchTts)
            /\ UNCHANGED spPromise
    /\ UNCHANGED <<spText, spSpeech, spCalls, hvars, gvars, pvars, uvars, rvars, nvars, cvars, bvars, dvars, avars, mvars, tvars>>

\* await ....arrayBuffer() settles: playAudio is started and not awaited, or
\* the error goes to the outer catch, which throws it again
ArrayBufferSettle(ok) ==
    /\ spPc = "arrayBuffer"
    /\ spPromise' = IF ok THEN "resolved" ELSE "rejected"
    /\ spPc' = "returned"
    /\ UNCHANGED <<spText, spTried, spSpeech, spCalls, hvars, gvars, pvars, uvars, rvars, nvars, cvars, bvars, dvars, avars, mvars, tvars>>

\* the caller goes on
SpeechReturn ==
    /\ spPc = "returned"
    /\ spPc' = "idle"
    /\ UNCHANGED <<spText, spTried, spSpeech, spPromise, spCalls, hvars, gvars, pvars, uvars, rvars, nvars, cvars, bvars, dvars, avars, mvars, tvars>>

SpeechInit ==
    /\ spPc = "idle"
    /\ spText = <<>>
    /\ spTried = <<>>
    /\ spSpeech = "none"
    /\ spPromise = "none"
    /\ spCalls = 0

NextSpeech ==
    \/ \E t \in SpeechTexts : TextToSpeech(t)
    \/ \E o \in SpeakOutcomes : SpeakWithBrowserSettle(o)
    \/ \E o \in FetchOutcomes : FetchTtsSettle(o)
    \/ \E ok \in BOOLEAN : StreamToMediaSourceSettle(ok)
    \/ \E ok \in BOOLEAN : ArrayBufferSettle(ok)
    \/ SpeechReturn

-----------------------------------------------------------------------------
(* The Normalizer applied to raw text, once and again.                     *)

\* length of the raw texts
MaxLen == 5

\* an upper-case and a lower-case letter, punctuation, a space, a tab and a
\* Malayalam letter
NormAlphabet == {65, 97, 33, 32, 9, 3374}

RawTexts == UNION {[1..n -> NormAlphabet] : n \in 0..MaxLen}

\* a raw text arrives and is normalized
NormalizeRaw(t) ==
    /\ nPasses = 0
    /\ nIn' = t
    /\ nOut' = Normalize(t)
    /\ nPasses' = 1
    /\ UNCHANGED <<hvars, gvars, pvars, uvars, rvars, svars, cvars, bvars, dvars, avars, mvars, tvars>>

\* the normalized text is normalized again
NormalizeAgain ==
    /\ nPasses = 1
    /\ nOut' = Normalize(nOut)
    /\ nPasses' = 2
    /\ UNCHANGED <<nIn, hvars, gvars, pvars, uvars, rvars, svars, cvars, bvars, dvars, avars, mvars, tvars>>

NormalizerInit ==
    /\ nIn = <<>>
    /\ nOut = <<>>
    /\ nPasses = 0

NextNormalizer ==
    \/ nPasses = 0 /\ \E t \in RawTexts : NormalizeRaw(t)
    \/ NormalizeAgain

-----------------------------------------------------------------------------
(* The RealtimeClient of the UI: connect, reconnect with backoff,          *)
(* disconnect.                                                             *)

\* WebSockets one client creates
MaxSockets == 2

\* connect() calls made by the user of the client
MaxConnects == 1

maxReconnectAttempts == 3

SocketIds == 1..Len(rcSockets)

NewSocket == [state |-> "CONNECTING", errored |-> FALSE]

\* the sockets that are connecting or connected
LiveSockets == {i \in SocketIds : rcSockets[i].state \in {"CONNECTING", "OPEN"}}

\* attemptReconnect() without the test of the limit
AttemptReconnectNoLimit(err) ==
    /\ reconnectAttempts' = reconnectAttempts + 1
    /\ rcTimers' = Append(rcTimers, (2 ^ (reconnectAttempts + 1)) * 1000)
    /\ rcScheduled' = Append(rcScheduled, (2 ^ (reconnectAttempts + 1)) * 1000)
    /\ rcLastError' = IF err # "" THEN err ELSE rcLastError

\* attemptReconnect(), called after the handler reported err ("" when it
\* reported nothing)
AttemptReconnect(err) ==
    IF reconnectAttempts < maxReconnectAttempts
    THEN /\ reconnectAttempts' = reconnectAttempts + 1
         /\ rcTimers' = Append(rcTimers, (2 ^ (reconnectAttempts + 1)) * 1000)
         /\ rcScheduled' = Append(rcScheduled, (2 ^ (reconnectAttempts + 1)) * 1000)
         /\ rcLastError' = IF err # "" THEN err ELSE rcLastError
    ELSE /\ UNCHANGED <<reconnectAttempts, rcTimers, rcScheduled>>
         /\ rcLastError' = "Max reconnection attempts reached"

\* the user calls connect(systemPrompt): the token is requested
RcConnect ==
    /\ rcConnects < MaxConnects
    /\ rcConnects' = rcConnects + 1
    /\ rcTokens' = rcTokens + 1
    /\ rcDisconnected' = FALSE
    /\ UNCHANGED <<rcSockets, rcWs, reconnectAttempts, rcTimers, rcScheduled,
                   rcLastError>>
    /\ UNCHANGED <<hvars, gvars, pvars, uvars, rvars, svars, nvars, bvars, dvars, avars, mvars, tvars>>

\* the token arrives: connectWithToken creates a socket and keeps it in this.ws
RcTokenResolves ==
    /\ rcTokens > 0
    /\ Len(rcSockets) < MaxSockets
    /\ rcTokens' = rcTokens - 1
    /\ rcSockets' = Append(rcSockets, NewSocket)
    /\ rcWs' = Len(rcSockets) + 1
    /\ UNCHANGED <<reconnectAttempts, rcTimers, rcScheduled, rcLastError,
                   rcDisconnected, rcConnects>>
    /\ UNCHANGED <<hvars, gvars, pvars, uvars, rvars, svars, nvars, bvars, dvars, avars, mvars, tvars>>

\* the token request fails: the error is reported, nothing is scheduled
RcTokenRejects ==
    /\ rcTokens > 0
    /\ rcTokens' = rcTokens - 1
    /\ rcLastError' = "Failed to get realtime token"
    /\ UNCHANGED <<rcSockets, rcWs, reconnectAttempts, rcTimers, rcScheduled,
                   rcDisconnected, rcConnects>>
    /\ UNCHANGED <<hvars, gvars, pvars, uvars, rvars, svars, nvars, bvars, dvars, avars, mvars, tvars>>

\* onopen of socket i: the counter is reset and session.update is sent through
\* this.ws, which reports an error when this.ws is not open
RcSocketOpen(i) ==
    /\ rcSockets[i].state = "CONNECTING"
    /\ rcSockets' = [rcSockets EXCEPT ![i].state = "OPEN"]
    /\ reconnectAttempts' = 0
    /\ rcScheduled' = <<>>
    /\ rcLastError' = IF rcSockets'[rcWs].state = "OPEN" THEN rcLastError
                      ELSE "WebSocket not connected"
    /\ UNCHANGED <<rcWs, rcTimers, rcTokens, rcDisconnected, rcConnects>>
    /\ UNCHANGED <<hvars, gvars, pvars, uvars, rvars, svars, nvars, bvars, dvars, avars, mvars, tvars>>

\* onerror of socket i: the error is reported and attemptReconnect is called;
\* the socket goes on to close
RcSocketError(i) ==
    /\ rcSockets[i].state \in {"CONNECTING", "OPEN"}
    /\ ~rcSockets[i].errored
    /\ rcSockets' = [rcSockets EXCEPT ![i] = [state |-> "CLOSING", errored |-> TRUE]]
    /\ AttemptReconnect("WebSocket error")
    /\ UNCHANGED <<rcWs, rcTokens, rcDisconnected, rcConnects>>
    /\ UNCHANGED <<hvars, gvars, pvars, uvars, rvars, svars, nvars, bvars, dvars, avars, mvars, tvars>>

\* onclose of socket i: attemptReconnect is called
RcSocketClose(i) ==
    /\ rcSockets[i].state \in {"OPEN", "CLOSING"}
    /\ rcSockets' = [rcSockets EXCEPT ![i].state = "CLOSED"]
    /\ AttemptReconnect("")
    /\ UNCHANGED <<rcWs, rcTokens, rcDisconnected, rcConnects>>
    /\ UNCHANGED <<hvars, gvars, pvars, uvars, rvars, svars, nvars, bvars, dvars, avars, mvars, tvars>>

\* timer k fires: this.connect() requests a token
RcTimerFires(k) ==
    /\ k \in 1..Len(rcTimers)
    /\ rcTimers' = [j \in 1..(Len(rcTimers) - 1) |->
                        IF j < k THEN rcTimers[j] ELSE rcTimers[j + 1]]
    /\ rcTokens' = rcTokens + 1
    /\ UNCHANGED <<rcSockets, rcWs, reconnectAttempts, rcScheduled, rcLastError,
                   rcDisconnected, rcConnects>>
    /\ UNCHANGED <<hvars, gvars, pvars, uvars, rvars, svars, nvars, bvars, dvars, avars, mvars, tvars>>

\* disconnect(): this.ws, when there is one, is closed
RcDisconnect ==
    /\ ~rcDisconnected
    /\ rcConnects > 0
    /\ rcDisconnected' = TRUE
    /\ rcSockets' = IF rcWs = 0 THEN rcSockets
                    ELSE [rcSockets EXCEPT ![rcWs].state = CloseSocket(@)]
    /\ UNCHANGED <<rcWs, reconnectAttempts, rcTimers, rcTokens, rcScheduled,
                   rcLastError, rcConnects>>
    /\ UNCHANGED <<hvars, gvars, pvars, uvars, rvars, svars, nvars, bvars, dvars, avars, mvars, tvars>>

ReconnectInit ==
    /\ rcSockets = <<>>
    /\ rcWs = 0
    /\ reconnectAttempts = 0
    /\ rcTimers = <<>>
    /\ rcTokens = 0
    /\ rcScheduled = <<>>
    /\ rcLastError = ""
    /\ rcDisconnected = FALSE
    /\ rcConnects = 0

NextReconnect ==
    \/ RcConnect
    \/ RcTokenResolves
    \/ RcTokenRejects
    \/ \E i \in SocketIds : RcSocketOpen(i)
    \/ \E i \in SocketIds : RcSocketError(i)
    \/ \E i \in SocketIds : RcSocketClose(i)
    \/ \E k \in 1..Len(rcTimers) : RcTimerFires(k)
    \/ RcDisconnect

-----------------------------------------------------------------------------
(* The RealtimeClient of the browser: connect with a timeout, disconnect,  *)
(* isConnectedStatus.                                                      *)

\* connect() calls on one client
MaxAttempts == 2

AttemptIds == 1..Len(bcSockets)

\* the socket, the promise and the 5-second timer of a connect() call
NewAttempt == [state |-> "CONNECTING", opened |-> FALSE, errored |-> FALSE,
               promise |-> "pending", timeout |-> "pending"]

\* clearTimeout(timeout)
ClearTimeout(t) == IF t = "pending" THEN "cleared" ELSE t

\* resolve() and reject() do nothing to a settled promise
SettleTo(p, outcome) == IF p = "pending" THEN outcome ELSE p

\* isConnectedStatus()
IsConnectedStatus ==
    isConnected /\ bcWs # 0 /\ bcSockets[bcWs].state = "OPEN"

\* connect(): a socket is created and kept in this.ws, the timer is started
BcConnect ==
    /\ Len(bcSockets) < MaxAttempts
    /\ bcSockets' = Append(bcSockets, NewAttempt)
    /\ bcWs' = Len(bcSockets) + 1
    /\ UNCHANGED isConnected
    /\ UNCHANGED <<hvars, gvars, pvars, uvars, rvars, svars, nvars, cvars, dvars, avars, mvars, tvars>>

\* onopen of socket i
BcOpen(i) ==
    /\ bcSockets[i].state = "CONNECTING"
    /\ bcSockets' = [bcSockets EXCEPT ![i] =
            [@ EXCEPT !.state = "OPEN", !.opened = TRUE,
                      !.timeout = ClearTimeout(@),
                      !.promise = SettleTo(@, "resolved")]]
    /\ isConnected' = TRUE
    /\ UNCHANGED bcWs
    /\ UNCHANGED <<hvars, gvars, pvars, uvars, rvars, svars, nvars, cvars, dvars, avars, mvars, tvars>>

\* the 5-second timer of connect() i fires
BcTimeout(i) ==
    /\ bcSockets[i].timeout = "pending"
    /\ bcSockets' = [bcSockets EXCEPT ![i] =
            [@ EXCEPT !.timeout = "fired", !.promise = SettleTo(@, "rejected")]]
    /\ UNCHANGED <<bcWs, isConnected>>
    /\ UNCHANGED <<hvars, gvars, pvars, uvars, rvars, svars, nvars, cvars, dvars, avars, mvars, tvars>>

\* onerror of socket i; the socket goes on to close
BcError(i) ==
    /\ bcSockets[i].state \in {"CONNECTING", "OPEN", "CLOSING"}
    /\ ~bcSockets[i].errored
    /\ bcSockets' = [bcSockets EXCEPT ![i] =
            [@ EXCEPT !.state = "CLOSING", !.errored = TRUE,
                      !.timeout = ClearTimeout(@),
                      !.promise = SettleTo(@, "rejected")]]
    /\ UNCHANGED <<bcWs, isConnected>>
    /\ UNCHANGED <<hvars, gvars, pvars, uvars, rvars, svars, nvars, cvars, dvars, avars, mvars, tvars>>

\* onclose of socket i; a socket that never opened closes after its error
\* event
BcClose(i) ==
    /\ \/ bcSockets[i].state = "OPEN"
       \/ bcSockets[i].state = "CLOSING"
            /\ (bcSockets[i].opened \/ bcSockets[i].errored)
    /\ bcSockets' = [bcSockets EXCEPT ![i] =
            [@ EXCEPT !.state = "CLOSED", !.timeout = ClearTimeout(@)]]
    /\ isConnected' = FALSE
    /\ UNCHANGED bcWs
    /\ UNCHANGED <<hvars, gvars, pvars, uvars, rvars, svars, nvars, cvars, dvars, avars, mvars, tvars>>

\* disconnect()
BcDisconnect ==
    /\ bcWs # 0
    /\ bcSockets' = [bcSockets EXCEPT ![bcWs].state = CloseSocket(@)]
    /\ bcWs' = 0
    /\ isConnected' = FALSE
    /\ UNCHANGED <<hvars, gvars, pvars, uvars, rvars, svars, nvars, cvars, dvars, avars, mvars, tvars>>

BrowserInit ==
    /\ bcSockets = <<>>
    /\ bcWs = 0
    /\ isConnected = FALSE

NextBrowser ==
    \/ BcConnect
    \/ \E i \in AttemptIds : BcOpen(i)
    \/ \E i \in AttemptIds : BcTimeout(i)
    \/ \E i \in AttemptIds : BcError(i)
    \/ \E i \in AttemptIds : BcClose(i)
    \/ BcDisconnect

-----------------------------------------------------------------------------
(* sendTextMessage: the NDJSON body is read in chunks, decoded, cut into   *)
(* lines and parsed.                                                       *)

\* bytes of the response body
MaxBytes == 5

\* a newline, a space, the letters t and a, and the two bytes of U+00E9
BodyBytes == {10, 32, 116, 97, 195, 169}

Bodies == UNION {[1..n -> BodyBytes] : n \in 0..MaxBytes}

ReplacementChar == 65533

\* TextDecoder.decode(bytes, {stream: true}) of UTF-8 with one-byte and
\* two-byte characters: the decoded characters and the bytes held back
RECURSIVE DecodeStream(_)
DecodeStream(bs) ==
    IF bs = <<>> THEN [chars |-> <<>>, pending |-> <<>>]
    ELSE IF bs[1] < 128
         THEN LET r == DecodeStream(Tail(bs))
              IN  [r EXCEPT !.chars = <<bs[1]>> \o @]
    ELSE IF bs[1] \in 194..223
         THEN IF Len(bs) = 1 THEN [chars |-> <<>>, pending |-> bs]
              ELSE IF bs[2] \in 128..191
                   THEN LET r == DecodeStream(Tail(Tail(bs)))
                        IN  [r EXCEPT !.chars =
                                <<(bs[1] - 192) * 64 + (bs[2] - 128)>> \o @]
                   ELSE LET r == DecodeStream(Tail(bs))
                        IN  [r EXCEPT !.chars = <<ReplacementChar>> \o @]
    ELSE LET r == DecodeStream(Tail(bs))
         IN  [r EXCEPT !.chars = <<ReplacementChar>> \o @]

\* text.split('\n'): the pieces between the newlines, at least one
RECURSIVE SplitLines(_)
SplitLines(text) ==
    IF \A k \in 1..Len(text) : text[k] # 10 THEN <<text>>
    ELSE LET k == CHOOSE j \in 1..Len(text) :
                      text[j] = 10 /\ \A m \in 1..(j - 1) : text[m] # 10
         IN  <<SubSeq(text, 1, k - 1)>> \o SplitLines(SubSeq(text, k + 1, Len(text)))

\* lines[lines.length - 1], without keeping it
KeepNothing(lines) == <<>>

\* lines[lines.length - 1]: the incomplete line stays in the buffer
KeepIncomplete(lines) == lines[Len(lines)]

\* JSON.parse of a line, for lines written as the letter of the type (t for
\* "text", a for "audio") followed by the characters of the data; any other
\* line does not parse
ParseLine(line) ==
    IF /\ line # <<>>
       /\ line[1] \in {116, 97}
       /\ \A k \in 2..Len(line) : line[k] \in {233, ReplacementChar}
    THEN [ok |-> TRUE, type |-> IF line[1] = 116 THEN "text" ELSE "audio",
          data |-> Tail(line)]
    ELSE [ok |-> FALSE, type |-> "", data |-> <<>>]

\* the body of the loop over the complete lines, for one line
HandleLine(acc, raw) ==
    LET line == Trim(raw)
        msg  == ParseLine(line)
    IN  IF line = <<>> THEN acc
        ELSE IF msg.ok /\ msg.type = "text" /\ msg.data # <<>>
             THEN [acc EXCEPT !.handled = Append(@, line), !.reply = msg.data]
        ELSE IF msg.ok /\ msg.type = "audio" /\ msg.data # <<>>
             THEN [acc EXCEPT !.handled = Append(@, line),
                              !.audio = Append(@, msg.data)]
        ELSE [acc EXCEPT !.handled = Append(@, line)]

\* the loop over lines[0 .. lines.length - 2]
RECURSIVE HandleLines(_, _, _)
HandleLines(acc, lines, i) ==
    IF i >= Len(lines) THEN acc
    ELSE HandleLines(HandleLine(acc, lines[i]), lines, i + 1)

\* fetch resolves with an ok response that has this body
NdFetch(body) ==
    /\ ndPc = "idle"
    /\ ndPc' = "reading"
    /\ ndBytes' = body
    /\ UNCHANGED <<ndPos, ndPending, buffer, fullReply, audioChunks, ndHandled>>
    /\ UNCHANGED <<hvars, gvars, pvars, uvars, rvars, svars, nvars, cvars, bvars, avars, mvars, tvars>>

\* reader.read() gives the next n bytes
NdRead(n) ==
    /\ ndPc = "reading"
    /\ n \in 1..(Len(ndBytes) - ndPos)
    /\ LET value == SubSeq(ndBytes, ndPos + 1, ndPos + n)
           d     == DecodeStream(ndPending \o value)
           lines == SplitLines(buffer \o d.chars)
           acc   == HandleLines([reply |-> fullReply, audio |-> audioChunks,
                                 handled |-> ndHandled], lines, 1)
       IN  /\ ndPending' = d.pending
           /\ buffer' = KeepIncomplete(lines)
           /\ fullReply' = acc.reply
           /\ audioChunks' = acc.audio
           /\ ndHandled' = acc.handled
    /\ ndPos' = ndPos + n
    /\ UNCHANGED <<ndPc, ndBytes>>
    /\ UNCHANGED <<hvars, gvars, pvars, uvars, rvars, svars, nvars, cvars, bvars, avars, mvars, tvars>>

\* reader.read() gives done: the reply is returned
NdDone ==
    /\ ndPc = "reading"
    /\ ndPos = Len(ndBytes)
    /\ ndPc' = "returned"
    /\ UNCHANGED <<ndBytes, ndPos, ndPending, buffer, fullReply, audioChunks,
                   ndHandled>>
    /\ UNCHANGED <<hvars, gvars, pvars, uvars, rvars, svars, nvars, cvars, bvars, avars, mvars, tvars>>

NdjsonInit ==
    /\ ndPc = "idle"
    /\ ndBytes = <<>>
    /\ ndPos = 0
    /\ ndPending = <<>>
    /\ buffer = <<>>
    /\ fullReply = <<>>
    /\ audioChunks = <<>>
    /\ ndHandled = <<>>

NextNdjson ==
    \/ ndPc = "idle" /\ \E body \in Bodies : NdFetch(body)
    \/ \E n \in 1..MaxBytes : NdRead(n)
    \/ NdDone

-----------------------------------------------------------------------------
(* RealtimeAudioProcessor: chunks are queued and played one after another. *)

\* chunks passed to playAudioChunk
MaxChunks == 3

\* samples of a chunk (pcm16ToFloat32 gives one sample for two bytes, none
\* for a chunk of less than two bytes); a sample lasts one unit of time
MaxSamples == 2

\* audioContext.currentTime goes up to this
MaxTime == 3

\* the state the methods of the processor work on
Processor ==
    [queue |-> audioQueue, playing |-> isPlaying, next |-> nextStartTime,
     sources |-> apSources, thrown |-> apThrown]

\* playNextChunk(): createBuffer throws for a chunk without samples, after
\* the chunk was taken from the queue
PlayNextChunk(st) ==
    IF st.queue = <<>> THEN [st EXCEPT !.playing = FALSE]
    ELSE LET chunk == Head(st.queue)
         IN  IF chunk.samples = 0
             THEN [st EXCEPT !.queue = Tail(@), !.thrown = @ + 1]
             ELSE [st EXCEPT
                     !.queue = Tail(@),
                     !.sources = Append(@,
                         [chunk |-> chunk.id, when |-> st.next,
                          at |-> IF st.next > currentTime THEN st.next
                                 ELSE currentTime,
                          duration |-> chunk.samples, ended |-> FALSE]),
                     !.next = @ + chunk.samples]

\* playAudioChunk from the push on
Enqueue(st, chunk) ==
    LET pushed == [st EXCEPT !.queue = Append(@, chunk)]
    IN  IF ~pushed.playing
        THEN PlayNextChunk([pushed EXCEPT !.playing = TRUE, !.next = currentTime])
        ELSE pushed

\* the processor takes the state st
Becomes(st) ==
    /\ audioQueue' = st.queue
    /\ isPlaying' = st.playing
    /\ nextStartTime' = st.next
    /\ apSources' = st.sources
    /\ apThrown' = st.thrown

\* playAudioChunk(audioData) with a chunk of n samples: with a suspended
\* context the call waits for resume(), otherwise it goes on at once
PlayAudioChunk(n) ==
    /\ Len(apArrived) < MaxChunks
    /\ LET chunk == [id |-> Len(apArrived) + 1, samples |-> n,
                     running |-> apState = "running"]
       IN  /\ apArrived' = Append(apArrived, chunk)
           /\ IF apState = "suspended"
              THEN /\ apResuming' = Append(apResuming, chunk)
                   /\ UNCHANGED <<audioQueue, isPlaying, nextStartTime,
                                  apSources, apThrown>>
              ELSE /\ Becomes(Enqueue(Processor, chunk))
                   /\ UNCHANGED apResuming
    /\ UNCHANGED <<apState, currentTime>>
    /\ UNCHANGED <<hvars, gvars, pvars, uvars, rvars, svars, nvars, cvars, bvars, dvars, mvars, tvars>>

\* the calls that waited for resume() go on, in the order they were made
RECURSIVE EnqueueAll(_, _)
EnqueueAll(st, chunks) ==
    IF chunks = <<>> THEN st
    ELSE EnqueueAll(Enqueue(st, Head(chunks)), Tail(chunks))

\* the context starts to run: the pending resume() promises resolve together
\* and the calls go on before any other event is handled
ResumeResolves ==
    /\ apResuming # <<>>
    /\ apState' = "running"
    /\ apResuming' = <<>>
    /\ Becomes(EnqueueAll(Processor, apResuming))
    /\ UNCHANGED <<currentTime, apArrived>>
    /\ UNCHANGED <<hvars, gvars, pvars, uvars, rvars, svars, nvars, cvars, bvars, dvars, mvars, tvars>>

\* resume() rejects: the calls return and their chunks are dropped
ResumeRejects ==
    /\ apResuming # <<>>
    /\ apResuming' = <<>>
    /\ UNCHANGED <<audioQueue, isPlaying, nextStartTime, apState, currentTime,
                   apSources, apArrived, apThrown>>
    /\ UNCHANGED <<hvars, gvars, pvars, uvars, rvars, svars, nvars, cvars, bvars, dvars, mvars, tvars>>

\* the clock of a running context advances
AudioClock ==
    /\ apState = "running"
    /\ currentTime < MaxTime
    /\ currentTime' = currentTime + 1
    /\ UNCHANGED <<audioQueue, isPlaying, nextStartTime, apState, apSources,
                   apResuming, apArrived, apThrown>>
    /\ UNCHANGED <<hvars, gvars, pvars, uvars, rvars, svars, nvars, cvars, bvars, dvars, mvars, tvars>>

\* onended of source k, which has played to its end: playNextChunk()
SourceEnded(k) ==
    /\ ~apSources[k].ended
    /\ currentTime >= apSources[k].at + apSources[k].duration
    /\ Becomes(PlayNextChunk(
           [Processor EXCEPT !.sources = [@ EXCEPT ![k].ended = TRUE]]))
    /\ UNCHANGED <<apState, currentTime, apResuming, apArrived>>
    /\ UNCHANGED <<hvars, gvars, pvars, uvars, rvars, svars, nvars, cvars, bvars, dvars, mvars, tvars>>

AudioInit ==
    /\ audioQueue = <<>>
    /\ isPlaying = FALSE
    /\ nextStartTime = 0
    /\ apState = "suspended"
    /\ currentTime = 0
    /\ apSources = <<>>
    /\ apResuming = <<>>
    /\ apArrived = <<>>
    /\ apThrown = 0

NextAudio ==
    \/ \E n \in 0..MaxSamples : PlayAudioChunk(n)
    \/ ResumeResolves
    \/ ResumeRejects
    \/ AudioClock
    \/ \E k \in 1..Len(apSources) : SourceEnded(k)

-----------------------------------------------------------------------------
(* streamToMediaSource: chunks are read and appended to the source buffer, *)
(* one append at a time.                                                   *)

\* chunks the reader gives
MaxReads == 4

\* the state the listener and the updateend handler work on
SourceBuffer ==
    [updating |-> msUpdating, queue |-> pending, appended |-> msAppended,
     thrown |-> msThrown, whileUpdating |-> msWhileUpdating]

\* sourceBuffer.appendBuffer(chunk): it throws when the buffer is updating,
\* and may throw otherwise (quota exceeded, media source no longer open);
\* when it does not throw the buffer is updating until updateend
AppendBuffer(sb, chunk, throws) ==
    IF sb.updating
    THEN [sb EXCEPT !.whileUpdating = TRUE, !.thrown = Append(@, chunk)]
    ELSE IF throws THEN [sb EXCEPT !.thrown = Append(@, chunk)]
    ELSE [sb EXCEPT !.updating = TRUE, !.appended = Append(@, chunk)]

\* the body of the read loop up to firstAppend: the chunk is queued when the
\* buffer is busy or chunks are waiting, otherwise appended, and queued when
\* the append throws
TakeChunk(sb, chunk, throws) ==
    IF sb.updating \/ sb.queue # <<>>
    THEN [sb EXCEPT !.queue = Append(@, chunk)]
    ELSE LET tried == AppendBuffer(sb, chunk, throws)
         IN  IF Len(tried.thrown) > Len(sb.thrown)
             THEN [tried EXCEPT !.queue = Append(@, chunk)]
             ELSE tried

\* the updateend listener; an exception of appendBuffer leaves the handler
\* after the chunk was taken from the queue
OnUpdateEnd(sb, throws) ==
    IF sb.queue # <<>> /\ ~sb.updating
    THEN AppendBuffer([sb EXCEPT !.queue = Tail(@)], Head(sb.queue), throws)
    ELSE sb

\* the source buffer takes the state sb
SourceBufferBecomes(sb) ==
    /\ msUpdating' = sb.updating
    /\ pending' = sb.queue
    /\ msAppended' = sb.appended
    /\ msThrown' = sb.thrown
    /\ msWhileUpdating' = sb.whileUpdating

\* sourceopen: the MIME type is supported and the source buffer is added, or
\* the promise is rejected
MsSourceOpen(supported) ==
    /\ msPc = "sourceopen"
    /\ msPc' = IF supported THEN "read" ELSE "rejected"
    /\ UNCHANGED <<msRead, pending, msUpdating, msAppended, msThrown, firstAppend,
                   msWhileUpdating>>
    /\ UNCHANGED <<hvars, gvars, pvars, uvars, rvars, svars, nvars, cvars, bvars, dvars, avars, tvars>>

\* reader.read() gives a chunk; after the first one the listener waits for
\* audio.play()
MsRead(throws) ==
    /\ msPc = "read"
    /\ msRead < MaxReads
    /\ msRead' = msRead + 1
    /\ SourceBufferBecomes(TakeChunk(SourceBuffer, msRead + 1, throws))
    /\ firstAppend' = FALSE
    /\ msPc' = IF firstAppend THEN "play" ELSE "read"
    /\ UNCHANGED <<hvars, gvars, pvars, uvars, rvars, svars, nvars, cvars, bvars, dvars, avars, tvars>>

\* audio.play() settles: resolved, or rejected and caught
MsPlaySettles ==
    /\ msPc = "play"
    /\ msPc' = "read"
    /\ UNCHANGED <<msRead, pending, msUpdating, msAppended, msThrown, firstAppend,
                   msWhileUpdating>>
    /\ UNCHANGED <<hvars, gvars, pvars, uvars, rvars, svars, nvars, cvars, bvars, dvars, avars, tvars>>

\* reader.read() gives done: the listener goes on to waitForFinish
MsReadDone ==
    /\ msPc = "read"
    /\ msPc' = "waitForFinish"
    /\ UNCHANGED <<msRead, pending, msUpdating, msAppended, msThrown, firstAppend,
                   msWhileUpdating>>
    /\ UNCHANGED <<hvars, gvars, pvars, uvars, rvars, svars, nvars, cvars, bvars, dvars, avars, tvars>>

\* reader.read() rejects: the catch block rejects the promise
MsReadFails ==
    /\ msPc = "read"
    /\ msPc' = "rejected"
    /\ UNCHANGED <<msRead, pending, msUpdating, msAppended, msThrown, firstAppend,
                   msWhileUpdating>>
    /\ UNCHANGED <<hvars, gvars, pvars, uvars, rvars, svars, nvars, cvars, bvars, dvars, avars, tvars>>

\* the append in progress ends: updateend
MsUpdateEnd(throws) ==
    /\ msUpdating
    /\ SourceBufferBecomes(OnUpdateEnd([SourceBuffer EXCEPT !.updating = FALSE], throws))
    /\ UNCHANGED <<msPc, msRead, firstAppend>>
    /\ UNCHANGED <<hvars, gvars, pvars, uvars, rvars, svars, nvars, cvars, bvars, dvars, avars, tvars>>

\* check() of waitForFinish finds the buffer idle and nothing waiting:
\* endOfStream() and resolve()
MsFinish ==
    /\ msPc = "waitForFinish"
    /\ ~msUpdating /\ pending = <<>>
    /\ msPc' = "resolved"
    /\ UNCHANGED <<msRead, pending, msUpdating, msAppended, msThrown, firstAppend,
                   msWhileUpdating>>
    /\ UNCHANGED <<hvars, gvars, pvars, uvars, rvars, svars, nvars, cvars, bvars, dvars, avars, tvars>>

MediaSourceInit ==
    /\ msPc = "sourceopen"
    /\ msRead = 0
    /\ pending = <<>>
    /\ msUpdating = FALSE
    /\ msAppended = <<>>
    /\ msThrown = <<>>
    /\ firstAppend = TRUE
    /\ msWhileUpdating = FALSE

NextMediaSource ==
    \/ \E supported \in BOOLEAN : MsSourceOpen(supported)
    \/ \E throws \in BOOLEAN : MsRead(throws)
    \/ MsPlaySettles
    \/ MsReadDone
    \/ MsReadFails
    \/ \E throws \in BOOLEAN : MsUpdateEnd(throws)
    \/ MsFinish

-----------------------------------------------------------------------------
(* streamTextToSpeech, one yield at a time.                                *)

\* whole chunks in the synthesized buffer
MaxFullChunks == 4

\* bytes of the buffer beyond its whole chunks
Remainders == {0, 1, 2, chunkSize - 2, chunkSize - 1}

AudioLengths == {k * chunkSize + r : k \in 0..MaxFullChunks, r \in Remainders}

\* buffer.slice(start, end): the bytes start .. end - 1 of the buffer
Slice(start, end) == [start |-> start, end |-> end]

\* i += chunkSize, one byte short
NextIndexOverlapping(i) == i + chunkSize - 1

\* i += chunkSize
NextIndex(i) == i + chunkSize

\* the speech is synthesized and copied to the buffer: the loop starts
TtsSynthesized(length) ==
    /\ ttsPc = "idle"
    /\ ttsPc' = "loop"
    /\ ttsLength' = length
    /\ ttsI' = 0
    /\ UNCHANGED ttsYielded
    /\ UNCHANGED <<hvars, gvars, pvars, uvars, rvars, svars, nvars, cvars, bvars, dvars, avars, mvars>>

\* the synthesis fails: the error is logged and thrown again
TtsSynthesisFails ==
    /\ ttsPc = "idle"
    /\ ttsPc' = "thrown"
    /\ UNCHANGED <<ttsLength, ttsI, ttsYielded>>
    /\ UNCHANGED <<hvars, gvars, pvars, uvars, rvars, svars, nvars, cvars, bvars, dvars, avars, mvars>>

\* one pass of the loop: a slice is yielded
TtsYield ==
    /\ ttsPc = "loop"
    /\ ttsI < ttsLength
    /\ ttsYielded' = Append(ttsYielded, Slice(ttsI, Min(ttsI + chunkSize, ttsLength)))
    /\ ttsI' = NextIndex(ttsI)
    /\ UNCHANGED <<ttsPc, ttsLength>>
    /\ UNCHANGED <<hvars, gvars, pvars, uvars, rvars, svars, nvars, cvars, bvars, dvars, avars, mvars>>

\* the loop ends: the generator returns
TtsReturn ==
    /\ ttsPc = "loop"
    /\ ~(ttsI < ttsLength)
    /\ ttsPc' = "returned"
    /\ UNCHANGED <<ttsLength, ttsI, ttsYielded>>
    /\ UNCHANGED <<hvars, gvars, pvars, uvars, rvars, svars, nvars, cvars, bvars, dvars, avars, mvars>>

TtsInit ==
    /\ ttsPc = "idle"
    /\ ttsLength = 0
    /\ ttsI = 0
    /\ ttsYielded = <<>>

NextTts ==
    \/ ttsPc = "idle" /\ \E length \in AudioLengths : TtsSynthesized(length)
    \/ TtsSynthesisFails
    \/ TtsYield
    \/ TtsReturn

-----------------------------------------------------------------------------
Init ==
    /\ HttpInit /\ GateInit /\ ProxyInit /\ UiInit /\ RealtimeInit /\ SpeechInit
    /\ NormalizerInit /\ ReconnectInit /\ BrowserInit
    /\ NdjsonInit /\ AudioInit /\ MediaSourceInit
    /\ TtsInit

SpecReconnect == Init /\ [][NextReconnect]_vars

SpecBrowser == Init /\ [][NextBrowser]_vars

SpecNdjson == Init /\ [][NextNdjson]_vars

SpecAudio == Init /\ [][NextAudio]_vars

SpecMediaSource == Init /\ [][NextMediaSource]_vars

SpecTts == Init /\ [][NextTts]_vars

SpecNormalizer == Init /\ [][NextNormalizer]_vars

SpecSpeech == Init /\ [][NextSpeech]_vars

SpecRealtime == Init /\ [][NextRealtime]_vars

SpecUi == Init /\ [][NextUi]_vars

SpecProxy == Init /\ [][NextProxy]_vars

\* a socket that is closing gets closed: the closing handshake ends, or its
\* timer destroys the socket
SpecProxyFair ==
    /\ Init /\ [][NextProxySockets]_vars
    /\ \A k \in ConnIds : WF_vars(conn[k].backend = "CLOSING" /\ BackendClose(k))
    /\ \A k \in ConnIds : WF_vars(conn[k].client = "CLOSING" /\ ClientClose(k))

SpecHttp == Init /\ [][NextHttp]_vars

SpecGate == Init /\ [][NextGate]_vars

-----------------------------------------------------------------------------
(* Properties of the HTTP routes.                                          *)

\* the request carries a text the keyword matcher triggers on
CrisisRequest ==
    /\ hreq.message.t = "string"
    /\ KeywordTriggered(Normalize(hreq.message.s))

\* the request's message passed the route's validation
Accepted == hreq.route \in {"psych", "psych-stream"} /\ hcalls # <<>>

\* C1: an utterance that contains a listed crisis phrase is answered by the
\* message of kind "crisis", and no reply-generation call is dispatched for it.
C1_CrisisUtteranceShortCircuits ==
    (hreq.route = "psych" /\ CrisisRequest) =>
        /\ \A i \in 1..Len(hcalls) : hcalls[i].api # "chat"
        /\ hpc = "done" => (Len(hres.bodies) = 1 /\ hres.bodies[1].kind = "crisis")

\* C3: an accepted utterance on /api/psych gets exactly one outbound message:
\* none before the handler is done, one when it is, never two, and never
\* NDJSON lines beside it.
C3_ExactlyOneMessagePerTurn ==
    (hreq.route = "psych" /\ hcalls # <<>>) =>
        /\ hres.lines = <<>>
        /\ hpc # "done" => (hres.bodies = <<>> /\ hres.ends = 0)
        /\ hpc = "done" => (Len(hres.bodies) = 1 /\ hres.ends = 1)

C3_Witness ==
    /\ hreq.route = "psych" /\ hpc = "done"
    /\ hcalls # <<>> /\ hcalls[1].state = "rejected"
    /\ Len(hres.bodies) = 1

\* C4: when the reply-generation call fails and no crisis was detected, the
\* turn delivers the fallback message and no error goes to the transport.
C4_ReplyFailureDeliversFallback ==
    (/\ hreq.route = "psych" /\ hpc = "done" /\ ~CrisisRequest
     /\ hcalls # <<>> /\ hcalls[Len(hcalls)].state = "rejected") =>
        /\ hres.status = 200
        /\ Len(hres.bodies) = 1 /\ hres.bodies[1].kind = "fallback"

\* what a chat call was given between the system prompt and the user's text
HistoryGiven(call) ==
    LET ms == ChatMessages(call.input) IN SubSeq(ms, 2, Len(ms) - 1)

\* C13: the reply-generation call receives the bounded history: the last 4
\* entries appended by the turns before it, in append order.
C13_ReplyCallReceivesHistory ==
    \A i \in 1..Len(hcalls) :
        (hreq.route = "psych" /\ hcalls[i].api = "chat" /\ hcalls[i].state = "pending") =>
            HistoryGiven(hcalls[i]) = LastN(transcript, HistoryLimit)

\* C16: an NDJSON response of /api/psych-stream starts with the one line
\* of type "text", which carries the reply askPsychologist returned; every
\* other line is of type "audio"; and once the chat call has resolved the
\* text line is there.
C16_OneTextLineFirst ==
    hreq.route = "psych-stream" =>
        /\ hres.lines # <<>> =>
              /\ hres.lines[1].type = "text"
              /\ Len(hcalls) = 2 /\ hres.lines[1].data = hcalls[2].input
              /\ \A i \in 2..Len(hres.lines) : hres.lines[i].type = "audio"
        /\ (hcalls # <<>> /\ hcalls[1].state = "resolved") => hres.lines # <<>>

\* the response is complete with the text line and two audio lines
C16_Witness ==
    /\ hreq.route = "psych-stream" /\ hpc = "done"
    /\ Len(hres.lines) = 3 /\ hres.lines[3].type = "audio"

\* the request carries a greeting of the instant-response table and no
\* crisis phrase
GreetingRequest ==
    /\ hreq.message.t = "string"
    /\ ~KeywordTriggered(Normalize(hreq.message.s))
    /\ Normalize(hreq.message.s) \in InstantKeys

\* C19: an utterance that matches no crisis keyword and whose normalized
\* text is in the greeting table is answered with the canned reply as kind
\* "instant", and no model call is issued for that turn.
C19_GreetingAnsweredInstantly ==
    (hreq.route = "psych" /\ GreetingRequest) =>
        /\ hcalls = <<>>
        /\ hpc = "done" => (Len(hres.bodies) = 1 /\ hres.bodies[1].kind = "instant")

\* C21: a valid /api/psych-stream request is ended exactly once: never
\* twice, and once when the handler is done.  After a failed chat call the
\* client has a single 500 JSON error and no NDJSON line; after a chat call
\* that succeeded it has the text line, no JSON body, and the stream is
\* ended, whatever became of the speech synthesis and of the audio loop.
C21_StreamEndedOnce ==
    (hreq.route = "psych-stream" /\ hcalls # <<>>) =>
        /\ hres.ends <= 1
        /\ hpc = "done" => hres.ends = 1
        /\ (hpc = "done" /\ hcalls[1].state = "rejected") =>
              /\ hres.status = 500
              /\ Len(hres.bodies) = 1 /\ hres.bodies[1].kind = "error"
              /\ hres.lines = <<>>
        /\ (hpc = "done" /\ hcalls[1].state = "resolved") =>
              /\ hres.lines # <<>> /\ hres.lines[1].type = "text"
              /\ hres.bodies = <<>>

\* the audio loop threw at its second chunk: the text line and one audio
\* line were written and the stream is ended
C21_Witness ==
    /\ hreq.route = "psych-stream" /\ hpc = "done"
    /\ Len(hcalls) = 2 /\ hcalls[2].state = "interrupted"
    /\ Len(hres.lines) = 2 /\ hres.lines[2].type = "audio"
    /\ hres.ends = 1

\* C5: no response carries a provider error: what the client gets after a
\* failed provider call takes nothing from the error's text.
C5_NoRawProviderError ==
    \A i \in 1..Len(hres.bodies) : hres.bodies[i].detail = ""

\* the message is missing, empty or not a string
MissingEmptyOrNotString(m) ==
    \/ m.t = "undefined"
    \/ m.t = "string" /\ Len(m.s) = 0
    \/ m.t \notin {"string", "undefined"}

\* C8: a missing, empty or non-string message is answered with an error and
\* no provider call is issued for it; an empty transcription never reaches
\* the chat call.
C8_InvalidInputRejected ==
    /\ (hreq.route \in {"psych", "psych-stream", "tts"} /\ MissingEmptyOrNotString(hreq.message)) =>
            /\ hcalls = <<>>
            /\ hpc = "done"
            /\ hres.status = 400 /\ Len(hres.bodies) = 1 /\ hres.bodies[1].kind = "error"
            /\ hres.lines = <<>>
    /\ \A i \in 1..Len(hcalls) : hcalls[i].api = "chat" => hcalls[i].input # <<>>

C8_Witness ==
    /\ hreq.route = "psych-stream" /\ hreq.message = JsNumber(5)
    /\ hpc = "done" /\ hres.status = 400 /\ hcalls = <<>>

\* C10: no reply-generation call is issued before the keyword matcher's
\* result for the utterance is known.
C10_KeywordResultBeforeCalls ==
    \A i \in 1..Len(hcalls) :
        (hreq.route = "psych" /\ hcalls[i].api = "chat") => kwVerdict \in {"clear", "triggered"}

-----------------------------------------------------------------------------
(* Properties of the gating pipeline.                                      *)

CrisisDelivered == {i \in 1..Len(outbox) : outbox[i].kind = "crisis"}

\* C2: the crisis latch is monotonic: from the delivery of a crisis message
\* on, crisisAlreadySurfaced is true for the rest of the connection, and the
\* connection never gets a second message of kind "crisis".
C2_CrisisLatchHolds ==
    /\ Cardinality(CrisisDelivered) <= 1
    /\ CrisisDelivered # {} => session.crisisAlreadySurfaced

\* a crisis message went out two turns ago and two more turns were delivered,
\* the last of them for an utterance the keyword matcher triggers on
C2_Witness ==
    /\ Len(outbox) = 3 /\ outbox[1].kind = "crisis"
    /\ gpc = "delivered" /\ kwVerdict = "triggered"

\* the messages delivered for the turn in progress
DeliveredThisTurn == {i \in 1..Len(outbox) : outbox[i].turn = gturn}

\* the history after the user and assistant turns of this turn are appended
HistoryWithTurn ==
    LastN(session.history \o <<[role |-> "user", content |-> gutt],
                               [role |-> "assistant", content |-> gcalls.text]>>, HistoryLimit)

\* C11: in a model-dispatch turn nothing is delivered before both the
\* classifier call and the reply call have settled; at the delivery, if the
\* classifier triggered and the latch is false, the latch is set, the
\* safety script is delivered and the history is left alone (the generated
\* reply is discarded); otherwise a generated reply is delivered and the
\* user and assistant turns are appended to the history.
C11_DecisionAfterBothResolve ==
    /\ [](gpc = "model-dispatch" => DeliveredThisTurn = {})
    /\ [][(gpc = "model-dispatch" /\ gpc' = "delivered") =>
            /\ gcalls.classifier # "pending" /\ gcalls.reply # "pending"
            /\ IF gcalls.classifier = "crisis" /\ ~session.crisisAlreadySurfaced
               THEN /\ session'.history = session.history
                    /\ session'.crisisAlreadySurfaced
                    /\ outbox' = Append(outbox, Outbound("crisis", SafetyScript(gutt)))
               ELSE gcalls.reply = "ok" =>
                    /\ session'.history = HistoryWithTurn
                    /\ session'.crisisAlreadySurfaced = session.crisisAlreadySurfaced
                    /\ outbox' = Append(outbox, Outbound("reply", "generated"))]_vars

\* the classifier triggered while a reply had been generated: the turn
\* delivered the safety script and the history is still empty
C11_Witness ==
    /\ gpc = "delivered" /\ gturn = 1
    /\ gcalls.classifier = "crisis" /\ gcalls.reply = "ok"
    /\ outbox[Len(outbox)].kind = "crisis"
    /\ session.history = <<>>

\* the classifier call failed: no answer, or one that is not a verdict
ClassifierFailed == gcalls.answer \in {"malformed", "error"}

\* C12: a failed classifier call resolves to non-crisis: the verdict is
\* safe, and the turn delivers the generated reply, or the fallback when the
\* reply call failed too, and never a crisis message.
C12_ClassifierFailureIsSafe ==
    ClassifierFailed =>
        /\ kwVerdict = "clear"
        /\ gcalls.classifier = "safe"
        /\ gcalls.reply # "none"
        /\ \A i \in DeliveredThisTurn :
              /\ outbox[i].kind \in {"reply", "fallback"}
              /\ outbox[i].kind = "fallback" <=> gcalls.reply = "failed"

\* the classifier call ended in a provider error and the turn delivered the
\* generated reply
C12_Witness ==
    /\ gcalls.answer = "error" /\ gpc = "delivered"
    /\ outbox[Len(outbox)].kind = "reply" /\ outbox[Len(outbox)].turn = gturn

\* C14: the safety script of a crisis message is chosen from the turn's
\* utterance alone: the Malayalam script when the utterance holds a
\* character of U+0D00 - U+0D7F, the English script when it holds none.
C14_ScriptFollowsUtterance ==
    \A i \in DeliveredThisTurn :
        outbox[i].kind = "crisis" =>
            outbox[i].text = IF \E j \in 1..Len(gutt) : gutt[j] >= 3328 /\ gutt[j] <= 3455
                             THEN "safety-script-ml"
                             ELSE "safety-script-en"

\* after a turn answered in English with a generated reply, an utterance of
\* Latin letters and one Malayalam letter gets the Malayalam script
C14_Witness ==
    /\ gpc = "delivered" /\ gturn = 2 /\ gutt = U_Mixed
    /\ Len(session.history) = 2 /\ ~IsMalayalam(session.history[1].content)
    /\ outbox[Len(outbox)] = Outbound("crisis", "safety-script-ml")

-----------------------------------------------------------------------------
(* Properties of the /realtime proxy.                                      *)

\* C6: connections are isolated: what was sent on a connection's backend
\* socket was received from that connection's client, what was sent on its
\* client socket came from that connection's backend, and a connection whose
\* backend is still connecting (a new connection, a reconnect) has nothing
\* of an earlier connection.
C6_ConnectionsIsolated ==
    \A k \in ConnIds :
        /\ \A i \in 1..Len(conn[k].toBackend) : conn[k].toBackend[i].conn = k
        /\ \A i \in 1..Len(conn[k].toClient) : conn[k].toClient[i].conn = k
        /\ conn[k].backend = "CONNECTING" => (conn[k].toBackend = <<>> /\ conn[k].toClient = <<>>)
        /\ k > nconn => conn[k] = Unused

\* two connections are open at once and each has carried a message
C6_Witness ==
    /\ conn[1].client = "OPEN" /\ conn[2].client = "OPEN"
    /\ Len(conn[1].toBackend) = 1 /\ Len(conn[2].toBackend) = 1

ArrivedWhileOpen(r) == r.readyState = "OPEN"

\* the messages of connection k's client that arrived while its backend
\* socket was open, in the order of arrival
ForwardedOf(k) ==
    LET open == SelectSeq(conn[k].fromClient, ArrivedWhileOpen)
    IN  [i \in 1..Len(open) |-> open[i].msg]

\* C15: what the proxy has sent on a connection's backend socket is, in
\* order and once each, the client messages that arrived while that socket
\* was OPEN; the others are dropped for good.  A client message that arrives
\* after the client was sent a backend message did not find the backend
\* connecting: it is forwarded unless the backend has closed or is closing.
C15_ForwardedIffBackendOpen ==
    \A k \in ConnIds :
        /\ conn[k].toBackend = ForwardedOf(k)
        /\ \A i \in 1..Len(conn[k].fromClient), j \in 1..Len(conn[k].toClient) :
              (/\ conn[k].toClient[j].type = "data"
               /\ conn[k].toClient[j].n < conn[k].fromClient[i].msg.n)
                 => conn[k].fromClient[i].readyState \in {"OPEN", "CLOSING", "CLOSED"}

\* a message that arrived while the backend was connecting was dropped and
\* a later one, after the backend opened, is the only one forwarded
C15_Witness ==
    /\ Len(conn[1].fromClient) = 2
    /\ conn[1].fromClient[1].readyState = "CONNECTING"
    /\ conn[1].fromClient[2].readyState = "OPEN"
    /\ conn[1].toBackend = <<conn[1].fromClient[2].msg>>

\* the two message handlers leave the state of every socket as it is
MessagesKeepSockets ==
    [][nmsg' # nmsg =>
         \A k \in ConnIds : /\ conn'[k].client = conn[k].client
                             /\ conn'[k].backend = conn[k].backend]_vars

HalfClosed(k) ==
    \/ conn[k].client \in {"CLOSING", "CLOSED"}
    \/ conn[k].backend \in {"CLOSING", "CLOSED"}

BothClosed(k) == conn[k].client = "CLOSED" /\ conn[k].backend = "CLOSED"

\* C20: closing is propagated both ways: a closed client socket has a
\* backend socket that is closed or closing, a closed backend socket has a
\* client socket that is closed or closing, and once either side is closing
\* or closed both sides are eventually closed.
C20_ClosePropagates ==
    \A k \in ConnIds :
        /\ [](conn[k].client = "CLOSED" => conn[k].backend \in {"CLOSING", "CLOSED"})
        /\ [](conn[k].backend = "CLOSED" => conn[k].client \in {"CLOSING", "CLOSED"})
        /\ HalfClosed(k) ~> BothClosed(k)

\* the client socket has closed while the backend was still connecting,
\* and the backend socket is closing
C20_Witness ==
    /\ conn[1].client = "CLOSED" /\ conn[1].backend = "CLOSING"
    /\ conn[1].toClient = <<>>

\* C9, on the proxy: a malformed (non-JSON) message of the browser is
\* never forwarded to the provider.
C9_MalformedNeverForwarded ==
    \A k \in ConnIds : \A i \in 1..Len(conn[k].toBackend) : conn[k].toBackend[i].json

-----------------------------------------------------------------------------
(* Properties of the browser chat client.                                  *)

\* C7: turns are processed one at a time: no utterance is sent to the
\* server while an earlier turn has not delivered its reply.
C7_OneTurnAtATime == Cardinality(inFlight) <= 1

\* C23: every chunk and every completed reply is written into the message
\* created for the turn that produced it, never into another turn's.
C23_WrittenIntoOwnTurn ==
    \A i \in 1..Len(messages) :
        \A j \in 1..Len(messages[i].written) :
            messages[i].written[j].turn = messages[i].turn

-----------------------------------------------------------------------------
(* Properties of askRealtimePsychologist.                                  *)

\* C9: a malformed (non-JSON) message is dropped: receiving it changes
\* neither the gathered text, the promise nor the socket, and no exception
\* leaves the listener, so later messages are still handled.
C9_MalformedMessageDropped ==
    [][(rtFrames' = rtFrames + 1 /\ rtLast' = "non-json")
         => (fullText' = fullText /\ rtPromise' = rtPromise /\ rtWs' = rtWs /\ ~rtCrashed')]_vars

\* C22: a call of askRealtimePsychologist settles on every event sequence
\* of its socket: when the socket has closed, after which no event can come,
\* the promise is resolved or rejected.
C22_SettledWhenSocketClosed ==
    rtWs = "CLOSED" => rtPromise.state \in {"resolved", "rejected"}

-----------------------------------------------------------------------------
(* Properties of textToSpeech.                                             *)

\* what the call has asked of the browser's speech synthesis
SynthesisTried == {i \in 1..Len(spTried) : spTried[i].what = "speechSynthesis"}

\* what the call has asked of the server
ServerTried == {i \in 1..Len(spTried) : spTried[i].what = "POST /api/tts"}

\* C17: textToSpeech tries the browser's speech synthesis, with language
\* ml-IN and before anything else, exactly when the text holds a character
\* of U+0D00 - U+0D7F; when the synthesis succeeded the server is not asked;
\* when it failed the server is asked; other text goes to the server at once.
C17_BrowserSynthesisIffMalayalam ==
    spCalls > 0 =>
        LET malayalam == \E j \in 1..Len(spText) : spText[j] >= 3328 /\ spText[j] <= 3455
        IN  /\ malayalam <=> SynthesisTried # {}
            /\ malayalam => (SynthesisTried = {1} /\ spTried[1].lang = "ml-IN")
            /\ spSpeech = "resolved" => (ServerTried = {} /\ spPromise = "resolved")
            /\ spSpeech = "rejected" => 2 \in ServerTried
            /\ ~malayalam => spTried[1] = FetchTts

\* the synthesis of a text with Latin and Malayalam letters failed and the
\* server was asked
C17_Witness ==
    /\ spText = U_Mixed /\ spSpeech = "rejected"
    /\ spTried = <<SpeechSynthesis("ml-IN"), FetchTts>>
    /\ spPc = "returned" /\ spPromise = "resolved"

-----------------------------------------------------------------------------
(* Properties of the Normalizer.                                           *)

\* C18: normalization is idempotent: the text after the second pass,
\* normalize(normalize(t)), is the text after the first, normalize(t).
C18_NormalizeIdempotent ==
    nPasses = 2 => nOut = Normalize(nIn)

\* a text with a stripped character between two spaces, which the first
\* pass changed, has gone through the second pass
C18_Witness ==
    /\ nPasses = 2
    /\ nIn = <<65, 32, 33, 9, 3374>>
    /\ nOut = <<97, 32, 3374>>


-----------------------------------------------------------------------------
(* Properties of the RealtimeClient of the UI.                             *)

\* C24: disconnect() is final: once it has been called, no step of the
\* client schedules a reconnect or creates a socket.
C24_DisconnectIsFinal ==
    [][rcDisconnected =>
          /\ Len(rcTimers') <= Len(rcTimers)
          /\ Len(rcSockets') = Len(rcSockets)]_vars

\* C25: sockets that are connecting or open, pending reconnect timers and connects
\* waiting for their token count at most one together.
C25_OneSocketOrTimer ==
    Cardinality(LiveSockets) + Len(rcTimers) + rcTokens <= 1

\* a handler of some socket ran attemptReconnect: its error event or its
\* close event was delivered
FailureStep ==
    \E i \in SocketIds :
        \/ rcSockets'[i].errored /\ ~rcSockets[i].errored
        \/ rcSockets'[i].state = "CLOSED" /\ rcSockets[i].state # "CLOSED"

\* a socket opened
OpenStep ==
    \E i \in SocketIds :
        rcSockets'[i].state = "OPEN" /\ rcSockets[i].state = "CONNECTING"

\* the counter is in 0..3, and the reconnects scheduled since the last open
\* are the first of the delays 2, 4 and 8 seconds
C26_CounterInRange ==
    /\ reconnectAttempts \in 0..maxReconnectAttempts
    /\ Len(rcScheduled) = reconnectAttempts
    /\ \A k \in 1..Len(rcScheduled) : rcScheduled[k] = <<2000, 4000, 8000>>[k]

\* C26: reconnectAttempts stays in 0..3; a failure below the limit schedules
\* the next of the delays 2, 4, 8 seconds, a failure at the limit reports
\* 'Max reconnection attempts reached' and schedules nothing, and an open
\* resets the counter to 0.
C26_BoundedBackoff ==
    [][/\ C26_CounterInRange /\ C26_CounterInRange'
       /\ OpenStep => reconnectAttempts' = 0
       /\ (FailureStep /\ reconnectAttempts < 3) =>
             /\ reconnectAttempts' = reconnectAttempts + 1
             /\ Len(rcTimers') = Len(rcTimers) + 1
             /\ rcTimers'[Len(rcTimers')] = <<2000, 4000, 8000>>[reconnectAttempts']
       /\ (FailureStep /\ reconnectAttempts = 3) =>
             /\ rcTimers' = rcTimers
             /\ reconnectAttempts' = 3
             /\ rcLastError' = "Max reconnection attempts reached"
       /\ ~FailureStep => Len(rcTimers') <= Len(rcTimers)]_vars

\* three reconnects were scheduled with no open in between, and the next
\* failure was reported instead of scheduling a fourth
C26_Witness ==
    /\ reconnectAttempts = 3
    /\ rcScheduled = <<2000, 4000, 8000>>
    /\ rcLastError = "Max reconnection attempts reached"
    /\ \A i \in SocketIds : rcSockets[i].state = "CLOSED"

\* after reconnects were scheduled a socket opened and the counter is 0 again
C26_ResetWitness ==
    /\ reconnectAttempts = 0
    /\ Len(rcSockets) = 2 /\ rcSockets[2].state = "OPEN"
    /\ rcSockets[1].state = "CLOSED"


-----------------------------------------------------------------------------
(* Properties of the RealtimeClient of the browser.                        *)

\* C27: isConnectedStatus() is true exactly when the current socket of the
\* client is open.
C27_ConnectedIffCurrentOpen ==
    IsConnectedStatus <=> (bcWs # 0 /\ bcSockets[bcWs].state = "OPEN")

\* C28: a connect() that resolved has an opened socket, and the socket of a
\* connect() that rejected is not reported as connected.
C28_OutcomeMatchesConnection ==
    \A i \in AttemptIds :
        /\ bcSockets[i].promise = "resolved" => bcSockets[i].opened
        /\ bcSockets[i].promise = "rejected" => ~(bcWs = i /\ IsConnectedStatus)


-----------------------------------------------------------------------------
(* Properties of sendTextMessage.                                          *)

\* the newline-terminated lines of a body that are not blank, trimmed
TerminatedLines(body) ==
    LET pieces == SplitLines(DecodeStream(body).chars)
        RECURSIVE NonBlank(_)
        NonBlank(i) ==
            IF i >= Len(pieces) THEN <<>>
            ELSE IF Trim(pieces[i]) = <<>> THEN NonBlank(i + 1)
            ELSE <<Trim(pieces[i])>> \o NonBlank(i + 1)
    IN  NonBlank(1)

\* the data of the last of the lines that is of type "text" (and, with
\* withData, has data that is not empty); empty when there is none
RECURSIVE LastTextData(_, _)
LastTextData(lines, withData) ==
    IF lines = <<>> THEN <<>>
    ELSE LET msg == ParseLine(lines[Len(lines)])
         IN  IF msg.ok /\ msg.type = "text" /\ (withData => msg.data # <<>>)
             THEN msg.data
             ELSE LastTextData(SubSeq(lines, 1, Len(lines) - 1), withData)

\* whatever the reads were, the lines handled are the newline-terminated
\* lines of the part of the body read so far, once each and in order
SameLinesForEverySplit ==
    ndPc # "idle" => ndHandled = TerminatedLines(SubSeq(ndBytes, 1, ndPos))

C29_SplitCharacterWitness ==
    /\ ndPc = "reading"
    /\ ndBytes = <<116, 195, 169, 10>>
    /\ ndPos = 2 /\ ndPending = <<195>> /\ buffer = <<116>>


-----------------------------------------------------------------------------
(* Properties of RealtimeAudioProcessor.                                   *)

\* the chunks in the queue and the chunks started, by their numbers
QueuedIds == {audioQueue[j].id : j \in 1..Len(audioQueue)}

StartedIds == {apSources[j].chunk : j \in 1..Len(apSources)}

\* sources are started in the order of arrival, one per chunk, each
\* scheduled not before the scheduled end of the one before it and started
\* after the one before it has played; the queue is in the order of arrival,
\* behind the chunks started
StartedInOrder ==
    /\ \A j \in 1..(Len(apSources) - 1) :
          /\ apSources[j].chunk < apSources[j + 1].chunk
          /\ apSources[j + 1].when >= apSources[j].when + apSources[j].duration
          /\ apSources[j + 1].at >= apSources[j].at + apSources[j].duration
    /\ \A j \in 1..(Len(audioQueue) - 1) : audioQueue[j].id < audioQueue[j + 1].id
    /\ \A a \in StartedIds, b \in QueuedIds : a < b

\* every chunk passed while the context was running is in the queue or was
\* started; a chunk waits in the queue only while a source plays; isPlaying
\* is false only when the queue is empty
NothingLostOrStuck ==
    /\ \A k \in 1..Len(apArrived) :
          apArrived[k].running => k \in QueuedIds \cup StartedIds
    /\ \A j \in 1..Len(audioQueue) :
          audioQueue[j].running => \E k \in 1..Len(apSources) : ~apSources[k].ended
    /\ ~isPlaying => audioQueue = <<>>

\* C30: every chunk passed to playAudioChunk while the context is running
\* is started exactly once, in arrival order, each scheduled for the end of
\* the one before it, and no chunk is left in the queue when playback stops
\* (isPlaying is false only when the queue is empty).
C30_QueuePlayedInOrder ==
    StartedInOrder /\ NothingLostOrStuck

\* the same for chunks that all have samples
C30_HoldsForChunksWithSamples ==
    (\A k \in 1..Len(apArrived) : apArrived[k].samples > 0) =>
        StartedInOrder /\ NothingLostOrStuck


-----------------------------------------------------------------------------
(* Properties of streamToMediaSource.                                      *)

\* the chunks 1 .. n in the order the reader gave them
ChunksRead == [k \in 1..msRead |-> k]

\* every chunk read was appended or waits, once and in arrival order;
\* appendBuffer was not called on an updating buffer; a waiting chunk has an
\* updateend to come; the promise resolves only with every chunk appended
AppendedInOrderThenResolved ==
    /\ msAppended \o pending = ChunksRead
    /\ ~msWhileUpdating
    /\ pending # <<>> => msUpdating
    /\ msPc = "resolved" => msAppended = ChunksRead

\* C31: every chunk read is appended to the source buffer exactly once and
\* in arrival order, appendBuffer is never called while the buffer is
\* updating, no chunk is left waiting with no append in progress, and the
\* promise resolves with every chunk appended; also when appendBuffer throws.
C31_AllAppendedThenResolved ==
    msPc \notin {"sourceopen", "rejected"} => AppendedInOrderThenResolved

\* the same as long as no appendBuffer call has thrown
C31_HoldsWhenNoAppendThrows ==
    (msPc \notin {"sourceopen", "rejected"} /\ msThrown = <<>>)
        => AppendedInOrderThenResolved

\* the listener polls in waitForFinish with a chunk waiting and no append in
\* progress: no updateend will come and the promise stays pending
C31_StuckWitness ==
    /\ msPc = "waitForFinish"
    /\ pending # <<>> /\ ~msUpdating
    /\ msThrown = <<1>>


-----------------------------------------------------------------------------
(* Properties of streamTextToSpeech.                                       *)

SliceSize(c) == c.end - c.start

\* the slices yielded so far are consecutive from byte 0, none is empty and
\* none has more than 4096 bytes
ConsecutiveSlices ==
    /\ \A k \in 1..Len(ttsYielded) :
          /\ ttsYielded[k].start = (IF k = 1 THEN 0 ELSE ttsYielded[k - 1].end)
          /\ SliceSize(ttsYielded[k]) \in 1..4096
          /\ ttsYielded[k].end <= ttsLength
    /\ \A k \in 1..(Len(ttsYielded) - 1) : SliceSize(ttsYielded[k]) = 4096

\* C32: the chunks yielded are consecutive slices of the buffer whose
\* concatenation is the buffer; no chunk is empty, every chunk has at most
\* 4096 bytes and every chunk but the last exactly 4096; an empty buffer
\* yields no chunk.
C32_SlicesCoverBuffer ==
    /\ ttsPc \in {"loop", "returned"} => ConsecutiveSlices
    /\ ttsPc = "returned" =>
          /\ (IF ttsYielded = <<>> THEN 0 ELSE ttsYielded[Len(ttsYielded)].end)
                = ttsLength
          /\ ttsLength = 0 <=> ttsYielded = <<>>
          /\ [k \in 1..Len(ttsYielded) |-> SliceSize(ttsYielded[k])]
                = ChunkSizesFrom(0, ttsLength)

\* a buffer of two whole chunks and one byte was yielded as three chunks
C32_Witness ==
    /\ ttsPc = "returned"
    /\ ttsLength = 8193
    /\ ttsYielded = <<Slice(0, 4096), Slice(4096, 8192), Slice(8192, 8193)>>

\* an empty buffer was yielded as no chunk
C32_EmptyWitness ==
    ttsPc = "returned" /\ ttsLength = 0 /\ ttsYielded = <<>>

=============================================================================
